---- MODULE Spec2Model ----
(***************************************************************************)
(* ZK Compliance Auditor: the compliance predicate (DataService,           *)
(* MockDataGenerator, isComplianceValid), the statistics aggregation, the  *)
(* data services around them and the audit-results route.                  *)
(*                                                                         *)
(* Time.  Date.now() is a millisecond count; a clock reading is the record *)
(* [sec, ms] with Date.now() = sec * 1000 + ms, so that                    *)
(* Math.floor(Date.now() / 1000) = sec and all products stay in range.     *)
(***************************************************************************)
EXTENDS Integers, Sequences, FiniteSets, TLC

VARIABLES
    now,               \* the wall clock, Date.now()
    ticks,             \* number of clock advances so far
    privateStateManager, \* DataService.privateStateManager: its class and contents
    isInitialized,     \* DataService.isInitialized
    initializeOutcome, \* how the last DataService.initialize() ended
    employees,         \* MockDataGenerator.employees
    policies,          \* MockDataGenerator.policies
    encryptedStorage,  \* MockShieldedState.encryptedStorage
    accessLog,         \* MockShieldedState.accessLog
    initPc,            \* MockDataGenerator.initializeData: stores already done
    calls,             \* number of checkCompliance / getComplianceStatistics calls made
    lastCall,          \* the last of them, with its outcome
    subject,           \* which module the run exercises
    pRecord, pPolicy, pNow, pOut,  \* inputs and output of the predicate under test
    sVerdicts, sOut,   \* inputs and output of the aggregation under test
    auditResults,      \* route.ts: the module-level auditResults array
    pending,           \* POST requests suspended at await request.json()
    responses,         \* the responses sent so far, by request
    requests,          \* number of requests received so far
    sessionCalls,      \* number of audit-session calls made
    heldSessions,      \* the session objects callers were handed
    lastSessionCall,   \* the last of them, with its outcome
    sdk,               \* isConnected of an instance of each SDK class
    sdkCalls,          \* number of direct SDK operations made
    lastSdkCall,       \* the last of them, with its outcome
    proverInitialize,  \* ZKComplianceProver.initialize(): not called, where it waits, or how it settled
    audits,            \* the runComplianceAudit invocations, each where it waits or how it settled
    cEnv,              \* process.env as loadConfig finds it
    cOut,              \* what loadConfig did
    lGot, lOut,        \* what getEmployee settled with, and what loadPrivateData did with it
    requested,         \* per SDK instance, the connect() / disconnect() calls made, in order
    timers,            \* per SDK instance, the suspended ones of them, in the order they resume
    dashEmployees,     \* ComplianceDashboard: the employees state
    dashAuditResults,  \* ComplianceDashboard: the auditResults state
    isRunningAudit,    \* ComplianceDashboard: the isRunningAudit state
    selectedEmployee,  \* ComplianceDashboard: the selectedEmployee state
    dashRun            \* ComplianceDashboard.runComplianceAudit: the last invocation

vars == <<now, ticks, privateStateManager, isInitialized, initializeOutcome,
          employees, policies,
          encryptedStorage, accessLog, initPc, calls, lastCall, subject,
          pRecord, pPolicy, pNow, pOut, sVerdicts, sOut,
          auditResults, pending, responses, requests,
          sessionCalls, heldSessions, lastSessionCall,
          sdk, sdkCalls, lastSdkCall, proverInitialize, audits, cEnv, cOut,
          lGot, lOut, requested, timers,
          dashEmployees, dashAuditResults, isRunningAudit, selectedEmployee, dashRun>>

serviceVars == <<now, ticks, privateStateManager, isInitialized, initializeOutcome,
                 employees, policies, encryptedStorage, accessLog, initPc, calls, lastCall,
                 subject>>
predicateVars == <<pRecord, pPolicy, pNow, pOut>>
statisticsVars == <<sVerdicts, sOut>>
routeVars == <<auditResults, pending, responses, requests>>
sessionVars == <<sessionCalls, heldSessions, lastSessionCall>>
sdkVars == <<sdk, sdkCalls, lastSdkCall>>
proverVars == <<proverInitialize, audits>>
configVars == <<cEnv, cOut>>
loadVars == <<lGot, lOut>>
connectionVars == <<requested, timers>>
dashboardVars == <<dashEmployees, dashAuditResults, isRunningAudit, selectedEmployee, dashRun>>
appVars == <<loadVars, connectionVars, dashboardVars>>
clientVars == <<sessionVars, sdkVars, proverVars, configVars, appVars>>
coreVars == <<serviceVars, predicateVars, statisticsVars, routeVars,
              sessionVars, sdkVars, proverVars, configVars>>

-----------------------------------------------------------------------------
(* Bounds *)

MaxSkewSec == 1
MaxTicks == 2
MaxCalls == 1

-----------------------------------------------------------------------------
(* Clock arithmetic *)

SecondsPerDay == 24 * 60 * 60

Days(n) == n * SecondsPerDay

\* t - (d seconds, 0 ms)
TimeMinusSec(t, d) == [sec |-> t.sec - d, ms |-> t.ms]

\* t + step, both clock readings
TimePlus(t, step) ==
    LET ms == t.ms + step.ms
    IN  [sec |-> t.sec + step.sec + (ms \div 1000), ms |-> ms % 1000]

\* (Date.now() / 1000 - trainingA_date): elapsed seconds, kept exact as
\* whole seconds plus the clock's millisecond part.
ElapsedSince(t, trainingA_date) == [sec |-> t.sec - trainingA_date, ms |-> t.ms]

\* the comparison written >= instead of >
DaysGreaterOrEqual(elapsed, maxAge) == elapsed.sec >= Days(maxAge)

\* elapsed / (24 * 60 * 60) > maxAge
DaysGreaterThan(elapsed, maxAge) ==
    \/ elapsed.sec > Days(maxAge)
    \/ elapsed.sec = Days(maxAge) /\ elapsed.ms > 0

\* the whole age in days, the policy's maximum not subtracted
FloorDaysNotSubtracted(elapsed, maxAge) == elapsed.sec \div SecondsPerDay

\* Math.floor(elapsed / (24 * 60 * 60) - maxAge); the millisecond part is
\* below one second and cannot carry the quotient over an integer.
FloorDaysMinus(elapsed, maxAge) == (elapsed.sec - Days(maxAge)) \div SecondsPerDay

-----------------------------------------------------------------------------
(* Outcomes of a call: a promise resolves with a value or rejects *)

Null == [isNull |-> TRUE]
Undefined == [isUndefined |-> TRUE]

Return(v) == [kind |-> "return", value |-> v]
Throw(e) == [kind |-> "throw", error |-> e]

NotFoundResult == [compliant |-> FALSE, reasons |-> <<"Employee or policy not found">>]

-----------------------------------------------------------------------------
(* The compliance predicate *)

ExpiredReason(n) == "Training A expired " \o ToString(n) \o " days ago"

ScoreReason(score, minScore) ==
    "Training B score (" \o ToString(score) \o "%) below minimum ("
        \o ToString(minScore) \o "%)"

ApprovalReason == "Manager approval required but not obtained"

\* the score check written <= instead of <
DataService_checkComplianceBody_ScoreLE(employee, policy, t) ==
    LET daysSinceTrainingA == ElapsedSince(t, employee.trainingA_date)
        req == policy.requirements
        expired == (daysSinceTrainingA.sec > Days(req.trainingA_maxAge))
                     \/ (daysSinceTrainingA.sec = Days(req.trainingA_maxAge)
                           /\ daysSinceTrainingA.ms > 0)
        lowScore == employee.trainingB_score <= req.trainingB_minScore
        noApproval == req.managerApproval /\ ~employee.managerApproval
        r1 == IF expired
              THEN <<ExpiredReason((daysSinceTrainingA.sec - Days(req.trainingA_maxAge))
                                      \div SecondsPerDay)>>
              ELSE <<>>
        r2 == IF lowScore
              THEN <<ScoreReason(employee.trainingB_score, req.trainingB_minScore)>>
              ELSE <<>>
        r3 == IF noApproval THEN <<ApprovalReason>> ELSE <<>>
    IN  [compliant |-> ~expired /\ ~lowScore /\ ~noApproval,
         reasons |-> r1 \o r2 \o r3]

\* DataService.checkCompliance, from `const reasons` to the return, at clock
\* reading t for a resolved employee and policy.
DataService_checkComplianceBody(employee, policy, t) ==
    LET daysSinceTrainingA == ElapsedSince(t, employee.trainingA_date)
        req == policy.requirements
        expired == DaysGreaterThan(daysSinceTrainingA, req.trainingA_maxAge)
        lowScore == employee.trainingB_score < req.trainingB_minScore
        noApproval == req.managerApproval /\ ~employee.managerApproval
        r1 == IF expired
              THEN <<ExpiredReason(FloorDaysMinus(daysSinceTrainingA, req.trainingA_maxAge))>>
              ELSE <<>>
        r2 == IF lowScore
              THEN <<ScoreReason(employee.trainingB_score, req.trainingB_minScore)>>
              ELSE <<>>
        r3 == IF noApproval THEN <<ApprovalReason>> ELSE <<>>
    IN  [compliant |-> ~expired /\ ~lowScore /\ ~noApproval,
         reasons |-> r1 \o r2 \o r3]

\* MockDataGenerator.checkCompliance, from `const reasons` to the return.
MockDataGenerator_checkComplianceBody(employee, policy, t) ==
    LET daysSinceTrainingA == ElapsedSince(t, employee.trainingA_date)
        req == policy.requirements
        expired == DaysGreaterThan(daysSinceTrainingA, req.trainingA_maxAge)
        lowScore == employee.trainingB_score < req.trainingB_minScore
        noApproval == req.managerApproval /\ ~employee.managerApproval
        r1 == IF expired
              THEN <<ExpiredReason(FloorDaysMinus(daysSinceTrainingA, req.trainingA_maxAge))>>
              ELSE <<>>
        r2 == IF lowScore
              THEN <<ScoreReason(employee.trainingB_score, req.trainingB_minScore)>>
              ELSE <<>>
        r3 == IF noApproval THEN <<ApprovalReason>> ELSE <<>>
    IN  [compliant |-> ~expired /\ ~lowScore /\ ~noApproval,
         reasons |-> r1 \o r2 \o r3]

oneYearSeconds == 31536000

\* isComplianceValid with the score compared by > instead of >=
isComplianceValid_ScoreAbove(trainingADate, trainingBScore, currentTime, minScore) ==
    LET cutoffDate == currentTime - oneYearSeconds
        dateValid == trainingADate >= cutoffDate
        scoreValid == trainingBScore > minScore
    IN  dateValid /\ scoreValid

\* isComplianceValid with the date compared by > instead of >=
isComplianceValid_DateAfterCutoff(trainingADate, trainingBScore, currentTime, minScore) ==
    LET cutoffDate == currentTime - oneYearSeconds
        dateValid == trainingADate > cutoffDate
        scoreValid == trainingBScore >= minScore
    IN  dateValid /\ scoreValid

\* isComplianceValid of the contract's test file
isComplianceValid(trainingADate, trainingBScore, currentTime, minScore) ==
    LET cutoffDate == currentTime - oneYearSeconds
        dateValid == trainingADate >= cutoffDate
        scoreValid == trainingBScore >= minScore
    IN  dateValid /\ scoreValid

-----------------------------------------------------------------------------
(* IEEE-754 double arithmetic, as far as the compliance rate needs it.      *)
(* A natural number is a sequence of 13-bit limbs, least significant first *)
(* and without leading zero limbs; a positive double is [m, e] with        *)
(* 2^52 <= m < 2^53 and value m * 2^e; every operation rounds to nearest,  *)
(* ties to even.                                                           *)

LimbBits == 13
LimbBase == 2 ^ 13

\* the number of bits of a limb d > 0
LimbLen(d) == CHOOSE l \in 1..13 : 2 ^ (l - 1) <= d /\ d < 2 ^ l

RECURSIVE BigFromInt(_)
BigFromInt(k) ==
    IF k = 0 THEN <<>> ELSE <<k % LimbBase>> \o BigFromInt(k \div LimbBase)

RECURSIVE BigTrim(_)
BigTrim(a) ==
    IF a = <<>> \/ a[Len(a)] # 0 THEN a ELSE BigTrim(SubSeq(a, 1, Len(a) - 1))

\* a * k + carry, k a small natural
RECURSIVE BigMulSmall(_, _, _)
BigMulSmall(a, k, carry) ==
    IF a = <<>> THEN BigFromInt(carry)
    ELSE LET t == Head(a) * k + carry
         IN  <<t % LimbBase>> \o BigMulSmall(Tail(a), k, t \div LimbBase)

\* a + b + carry
RECURSIVE BigAdd(_, _, _)
BigAdd(a, b, carry) ==
    IF a = <<>> /\ b = <<>> THEN BigFromInt(carry)
    ELSE LET x == IF a = <<>> THEN 0 ELSE Head(a)
             y == IF b = <<>> THEN 0 ELSE Head(b)
             t == x + y + carry
         IN  <<t % LimbBase>> \o BigAdd(IF a = <<>> THEN a ELSE Tail(a),
                                        IF b = <<>> THEN b ELSE Tail(b),
                                        t \div LimbBase)

\* a <= b
BigLeq(a, b) ==
    \/ Len(a) < Len(b)
    \/ /\ Len(a) = Len(b)
       /\ \/ a = b
          \/ \E i \in 1..Len(a) :
                /\ a[i] < b[i]
                /\ \A j \in (i + 1)..Len(a) : a[j] = b[j]

BigBitLen(a) == IF a = <<>> THEN 0 ELSE LimbBits * (Len(a) - 1) + LimbLen(a[Len(a)])

\* a * 2^s
BigShl(a, s) ==
    IF a = <<>> THEN a
    ELSE [i \in 1..(s \div LimbBits) |-> 0] \o BigMulSmall(a, 2 ^ (s % LimbBits), 0)

\* floor(a / 2^s)
BigShr(a, s) ==
    LET q == s \div LimbBits
        r == s % LimbBits
        limb(i) == IF i <= Len(a) THEN a[i] ELSE 0
    IN  BigTrim([i \in 1..(Len(a) - q) |->
                    (limb(i + q) \div 2 ^ r)
                      + (limb(i + q + 1) % 2 ^ r) * 2 ^ (LimbBits - r)])

\* bit number s of a, bit 0 the least significant
BigBit(a, s) == (a[(s \div LimbBits) + 1] \div 2 ^ (s % LimbBits)) % 2

\* whether a bit below bit number s of a is set
BigAnyBelow(a, s) ==
    \/ \E i \in 1..(s \div LimbBits) : a[i] # 0
    \/ s % LimbBits # 0 /\ a[(s \div LimbBits) + 1] % 2 ^ (s % LimbBits) # 0

\* long division of limbs i..1 of a by the small natural b, remainder rem
\* carried in: the quotient and the final remainder
RECURSIVE BigDivFrom(_, _, _, _)
BigDivFrom(a, i, b, rem) ==
    IF i = 0 THEN [q |-> <<>>, r |-> rem]
    ELSE LET cur == rem * LimbBase + a[i]
             rest == BigDivFrom(a, i - 1, b, cur % b)
         IN  [q |-> rest.q \o <<cur \div b>>, r |-> rest.r]

DoubleZero == [m |-> <<>>, e |-> 0]

\* the double nearest to a * 2^e (ties to even)
RoundToDouble(a, e) ==
    IF a = <<>> THEN DoubleZero
    ELSE IF BigBitLen(a) <= 53
         THEN [m |-> BigShl(a, 53 - BigBitLen(a)), e |-> e - (53 - BigBitLen(a))]
         ELSE LET d == BigBitLen(a) - 53
                  kept == BigShr(a, d)
                  up == /\ BigBit(a, d - 1) = 1
                        /\ (BigAnyBelow(a, d - 1) \/ kept[1] % 2 = 1)
                  r == IF up THEN BigAdd(kept, <<>>, 1) ELSE kept
              IN  IF BigBitLen(r) = 54 THEN [m |-> BigShr(r, 1), e |-> e + d + 1]
                  ELSE [m |-> r, e |-> e + d]

DoubleFromInt(k) == RoundToDouble(BigFromInt(k), 0)

\* a / b for naturals a and b > 0: 65 fraction bits of the quotient and a
\* sticky bit for the remainder, rounded once
DoubleDiv(a, b) ==
    IF a = 0 THEN DoubleZero
    ELSE LET num == BigShl(BigFromInt(a), 5 * LimbBits)
             d == BigDivFrom(num, Len(num), b, 0)
             sticky == IF d.r # 0 THEN 1 ELSE 0
         IN  RoundToDouble(BigMulSmall(BigTrim(d.q), 2, sticky), -(5 * LimbBits) - 1)

\* x * k for a double x and a small natural k: the exact product, rounded
DoubleMulSmall(x, k) ==
    IF x = DoubleZero THEN DoubleZero
    ELSE RoundToDouble(BigTrim(BigMulSmall(x.m, k, 0)), x.e)

\* x <= y for doubles x, y >= 0
DoubleLeq(x, y) ==
    \/ x = DoubleZero
    \/ /\ y # DoubleZero
       /\ \/ x.e < y.e
          \/ x.e = y.e /\ BigLeq(x.m, y.m)

-----------------------------------------------------------------------------
(* The seeded data *)

StartSec == 1700000000

\* DataService.createInitialEmployeeData mutated: the records are dated once,
\* relative to the start of the run
createInitialEmployeeData_DatedOnce(t) ==
    << [employeeId |-> "EMP001", employeeName |-> "Alice Johnson",
        department |-> "IT Security",
        trainingA_date |-> StartSec - 30 * 24 * 60 * 60, trainingB_score |-> 92,
        lastLogin |-> TimeMinusSec(t, 2 * 60 * 60), managerApproval |-> TRUE],
       [employeeId |-> "EMP002", employeeName |-> "Bob Smith",
        department |-> "Human Resources",
        trainingA_date |-> StartSec - 60 * 24 * 60 * 60, trainingB_score |-> 85,
        lastLogin |-> TimeMinusSec(t, 4 * 60 * 60), managerApproval |-> TRUE],
       [employeeId |-> "EMP003", employeeName |-> "Carol Davis",
        department |-> "Finance",
        trainingA_date |-> StartSec - 400 * 24 * 60 * 60, trainingB_score |-> 78,
        lastLogin |-> TimeMinusSec(t, 24 * 60 * 60), managerApproval |-> FALSE] >>

\* DataService.createInitialEmployeeData, evaluated at clock reading t
createInitialEmployeeData(t) ==
    << [employeeId |-> "EMP001", employeeName |-> "Alice Johnson",
        department |-> "IT Security",
        trainingA_date |-> t.sec - 30 * 24 * 60 * 60, trainingB_score |-> 92,
        lastLogin |-> TimeMinusSec(t, 2 * 60 * 60), managerApproval |-> TRUE],
       [employeeId |-> "EMP002", employeeName |-> "Bob Smith",
        department |-> "Human Resources",
        trainingA_date |-> t.sec - 60 * 24 * 60 * 60, trainingB_score |-> 85,
        lastLogin |-> TimeMinusSec(t, 4 * 60 * 60), managerApproval |-> TRUE],
       [employeeId |-> "EMP003", employeeName |-> "Carol Davis",
        department |-> "Finance",
        trainingA_date |-> t.sec - 400 * 24 * 60 * 60, trainingB_score |-> 78,
        lastLogin |-> TimeMinusSec(t, 24 * 60 * 60), managerApproval |-> FALSE] >>

\* DataService.createInitialPolicyData, evaluated at clock reading t
createInitialPolicyData(t) ==
    << [id |-> "POLICY_001", name |-> "Mandatory Training Compliance",
        requirements |-> [trainingA_maxAge |-> 365, trainingB_minScore |-> 80,
                          managerApproval |-> TRUE],
        created |-> TimeMinusSec(t, 30 * 24 * 60 * 60),
        lastModified |-> TimeMinusSec(t, 7 * 24 * 60 * 60)] >>

\* this.policies as MockDataGenerator.initializeData assigns it at t
MockPolicies(t) ==
    << [id |-> "POLICY_001", name |-> "Mandatory Training Compliance",
        requirements |-> [trainingA_maxAge |-> 365, trainingB_minScore |-> 80,
                          managerApproval |-> TRUE],
        created |-> TimeMinusSec(t, 30 * 24 * 60 * 60),
        lastModified |-> TimeMinusSec(t, 7 * 24 * 60 * 60)],
       [id |-> "POLICY_002", name |-> "Security Awareness Training",
        requirements |-> [trainingA_maxAge |-> 180, trainingB_minScore |-> 85,
                          managerApproval |-> TRUE],
        created |-> TimeMinusSec(t, 60 * 24 * 60 * 60),
        lastModified |-> TimeMinusSec(t, 14 * 24 * 60 * 60)] >>

\* this.employees as MockDataGenerator.initializeData assigns it at t
MockEmployees(t) ==
    << [employeeId |-> "EMP001", employeeName |-> "Alice Johnson",
        department |-> "IT Security",
        trainingA_date |-> t.sec - 30 * 24 * 60 * 60, trainingB_score |-> 92,
        lastLogin |-> TimeMinusSec(t, 2 * 60 * 60), managerApproval |-> TRUE],
       [employeeId |-> "EMP002", employeeName |-> "Bob Smith",
        department |-> "Human Resources",
        trainingA_date |-> t.sec - 60 * 24 * 60 * 60, trainingB_score |-> 85,
        lastLogin |-> TimeMinusSec(t, 4 * 60 * 60), managerApproval |-> TRUE],
       [employeeId |-> "EMP003", employeeName |-> "Carol Davis",
        department |-> "Finance",
        trainingA_date |-> t.sec - 400 * 24 * 60 * 60, trainingB_score |-> 78,
        lastLogin |-> TimeMinusSec(t, 24 * 60 * 60), managerApproval |-> FALSE],
       [employeeId |-> "EMP004", employeeName |-> "David Wilson",
        department |-> "Engineering",
        trainingA_date |-> t.sec - 10 * 24 * 60 * 60, trainingB_score |-> 94,
        lastLogin |-> TimeMinusSec(t, 30 * 60), managerApproval |-> TRUE],
       [employeeId |-> "EMP005", employeeName |-> "Eva Martinez",
        department |-> "Legal",
        trainingA_date |-> t.sec - 45 * 24 * 60 * 60, trainingB_score |-> 88,
        lastLogin |-> TimeMinusSec(t, 6 * 60 * 60), managerApproval |-> TRUE] >>

-----------------------------------------------------------------------------
(* Aggregation *)

\* the counting loop mutated: it starts at the second verdict
CountCompliant_FromSecond(verdicts) ==
    Cardinality({i \in 2..Len(verdicts) : verdicts[i]})

\* the loop of getComplianceStatistics over the verdicts of its
\* checkCompliance calls: compliantCount
RECURSIVE CountCompliant(_)
CountCompliant(verdicts) ==
    IF verdicts = <<>> THEN 0
    ELSE (IF Head(verdicts) THEN 1 ELSE 0) + CountCompliant(Tail(verdicts))

\* the object DataService.getComplianceStatistics returns, mutated: the
\* rate is truncated to a whole percentage
DataService_statistics_Truncated(employeesLength, compliantCount) ==
    [totalEmployees |-> employeesLength,
     compliantEmployees |-> compliantCount,
     nonCompliantEmployees |-> employeesLength - compliantCount,
     complianceRate |-> IF employeesLength > 0
                        THEN DoubleFromInt((100 * compliantCount) \div employeesLength)
                        ELSE DoubleZero]

\* the object DataService.getComplianceStatistics returns
DataService_statistics(employeesLength, compliantCount) ==
    [totalEmployees |-> employeesLength,
     compliantEmployees |-> compliantCount,
     nonCompliantEmployees |-> employeesLength - compliantCount,
     complianceRate |-> IF employeesLength > 0
                        THEN DoubleMulSmall(DoubleDiv(compliantCount, employeesLength), 100)
                        ELSE DoubleZero]

\* the object MockDataGenerator.getComplianceStatistics returns
MockDataGenerator_statistics(employeesLength, compliantCount) ==
    [totalEmployees |-> employeesLength,
     compliantEmployees |-> compliantCount,
     nonCompliantEmployees |-> employeesLength - compliantCount,
     complianceRate |-> IF employeesLength > 0
                        THEN DoubleMulSmall(DoubleDiv(compliantCount, employeesLength), 100)
                        ELSE DoubleZero]

-----------------------------------------------------------------------------
(* MockShieldedState *)

EmptyMap == [k \in {} |-> Null]
MapSet(map, key, value) ==
    [k \in DOMAIN map \cup {key} |-> IF k = key THEN value ELSE map[k]]

\* JSON text and base64 text are kept as tagged wrappers of what they encode
JSON_stringify(data) == [json |-> data]
JSON_parse(text) == text.json
mockEncrypt(data) == [base64 |-> data]
mockDecrypt(encrypted) == encrypted.base64

\* MockShieldedState.storeEncrypted at clock reading t: the storage and the
\* access log afterwards
storeEncrypted(storage, log, key, data, t) ==
    [encryptedStorage |-> MapSet(storage, key, mockEncrypt(JSON_stringify(data))),
     accessLog |-> Append(log, [key |-> key, action |-> "write", timestamp |-> t])]

\* MockShieldedState.retrieveDecrypted mutated: a read consumes the entry
retrieveDecrypted_Consuming(storage, log, key, t) ==
    IF key \notin DOMAIN storage
    THEN [value |-> Null, encryptedStorage |-> storage, accessLog |-> log]
    ELSE [value |-> JSON_parse(mockDecrypt(storage[key])),
          encryptedStorage |-> [k \in DOMAIN storage \ {key} |-> storage[k]],
          accessLog |-> Append(log, [key |-> key, action |-> "read", timestamp |-> t])]

\* MockShieldedState.retrieveDecrypted at clock reading t: the value returned,
\* the storage and the access log afterwards
retrieveDecrypted(storage, log, key, t) ==
    IF key \notin DOMAIN storage
    THEN [value |-> Null, encryptedStorage |-> storage, accessLog |-> log]
    ELSE [value |-> JSON_parse(mockDecrypt(storage[key])),
          encryptedStorage |-> storage,
          accessLog |-> Append(log, [key |-> key, action |-> "read", timestamp |-> t])]

-----------------------------------------------------------------------------
(* DataService *)

NotInitialized == "Data service not initialized"

StorageNotImplemented ==
    "Actual Midnight Protocol encrypted storage not yet implemented. Please use the official Midnight Protocol SDK when available."

\* employees.find(emp => emp.employeeId === employeeId) || null
FindEmployee(records, employeeId) ==
    IF \E i \in 1..Len(records) : records[i].employeeId = employeeId
    THEN records[CHOOSE i \in 1..Len(records) :
                    /\ records[i].employeeId = employeeId
                    /\ \A j \in 1..(i - 1) : records[j].employeeId # employeeId]
    ELSE Null

\* policies.find(policy => policy.id === policyId) || null
FindPolicy(records, policyId) ==
    IF \E i \in 1..Len(records) : records[i].id = policyId
    THEN records[CHOOSE i \in 1..Len(records) :
                    /\ records[i].id = policyId
                    /\ \A j \in 1..(i - 1) : records[j].id # policyId]
    ELSE Null

\* DataService.getEmployee at clock reading t
DataService_getEmployee(initialized, employeeId, t) ==
    IF ~initialized THEN Throw(NotInitialized)
    ELSE Return(FindEmployee(createInitialEmployeeData(t), employeeId))

\* DataService.getAllEmployees at clock reading t
DataService_getAllEmployees(initialized, t) ==
    IF ~initialized THEN Throw(NotInitialized)
    ELSE Return(createInitialEmployeeData(t))

\* DataService.getPolicy without its isInitialized test
DataService_getPolicy_Ungated(initialized, policyId, t) ==
    Return(FindPolicy(createInitialPolicyData(t), policyId))

\* DataService.getPolicy at clock reading t
DataService_getPolicy(initialized, policyId, t) ==
    IF ~initialized THEN Throw(NotInitialized)
    ELSE Return(FindPolicy(createInitialPolicyData(t), policyId))

\* DataService.checkCompliance mutated: a missing record is an error
DataService_checkCompliance_ThrowsOnMissing(initialized, employeeId, policyId, t1, t2) ==
    LET employee == DataService_getEmployee(initialized, employeeId, t1)
        policy == DataService_getPolicy(initialized, policyId, t2)
    IN  IF employee.kind = "throw" THEN employee
        ELSE IF policy.kind = "throw" THEN policy
        ELSE IF employee.value = Null \/ policy.value = Null
             THEN Throw("Employee or policy not found")
        ELSE Return(DataService_checkComplianceBody(employee.value, policy.value, t2))

\* DataService.checkCompliance entered at t1, its reads after the first await
\* made at t2: how its promise settles
DataService_checkCompliance(initialized, employeeId, policyId, t1, t2) ==
    LET employee == DataService_getEmployee(initialized, employeeId, t1)
        policy == DataService_getPolicy(initialized, policyId, t2)
    IN  IF employee.kind = "throw" THEN employee
        ELSE IF policy.kind = "throw" THEN policy
        ELSE IF employee.value = Null \/ policy.value = Null
             THEN Return(NotFoundResult)
        ELSE Return(DataService_checkComplianceBody(employee.value, policy.value, t2))

\* the loop of DataService.getComplianceStatistics over the rest of the
\* enumerated employees: the outcomes of its checkCompliance calls
RECURSIVE DataService_outcomes(_, _, _, _)
DataService_outcomes(rest, initialized, policyId, t) ==
    IF rest = <<>> THEN <<>>
    ELSE <<DataService_checkCompliance(initialized, Head(rest).employeeId, policyId, t, t)>>
           \o DataService_outcomes(Tail(rest), initialized, policyId, t)

\* DataService.getComplianceStatistics entered at t1, its reads after the
\* first await made at t2: how its promise settles
DataService_getComplianceStatistics(initialized, policyId, t1, t2) ==
    LET all == DataService_getAllEmployees(initialized, t1)
    IN  IF all.kind = "throw" THEN all
        ELSE LET outcomes == DataService_outcomes(all.value, initialized, policyId, t2)
             IN  IF \E i \in 1..Len(outcomes) : outcomes[i].kind = "throw"
                 THEN outcomes[CHOOSE i \in 1..Len(outcomes) :
                                  /\ outcomes[i].kind = "throw"
                                  /\ \A j \in 1..(i - 1) : outcomes[j].kind # "throw"]
                 ELSE Return(DataService_statistics(
                          Len(all.value),
                          CountCompliant([i \in 1..Len(outcomes) |->
                                             outcomes[i].value.compliant])))

\* what a seeding loop stores, in order: the employees, then the policies
InitItems(emps, pols) ==
    [i \in 1..Len(emps) |-> [key |-> "employee:" \o emps[i].employeeId, data |-> emps[i]]]
    \o [i \in 1..Len(pols) |-> [key |-> "policy:" \o pols[i].id, data |-> pols[i]]]

\* the private state manager after storing items[i..], one storeEncrypted each
RECURSIVE StoreAll(_, _, _, _)
StoreAll(psm, items, i, t) ==
    IF i > Len(items) THEN psm
    ELSE LET stored == storeEncrypted(psm.encryptedStorage, psm.accessLog,
                                      items[i].key, items[i].data, t)
         IN  StoreAll([psm EXCEPT !.encryptedStorage = stored.encryptedStorage,
                                  !.accessLog = stored.accessLog],
                      items, i + 1, t)

-----------------------------------------------------------------------------
(* MockDataGenerator *)

\* MockDataGenerator.checkCompliance entered at t1, its reads after the first
\* await made at t2: the result and the shielded state afterwards
MockDataGenerator_checkCompliance(storage, log, employeeId, policyId, t1, t2) ==
    LET e == retrieveDecrypted(storage, log, "employee:" \o employeeId, t1)
        p == retrieveDecrypted(e.encryptedStorage, e.accessLog,
                               "policy:" \o policyId, t2)
    IN  [result |-> IF e.value = Null \/ p.value = Null THEN NotFoundResult
                    ELSE MockDataGenerator_checkComplianceBody(e.value, p.value, t2),
         encryptedStorage |-> p.encryptedStorage,
         accessLog |-> p.accessLog]

\* MockDataGenerator.getAllEmployees over the rest of this.employees
RECURSIVE MockDataGenerator_getAllEmployees(_, _, _, _)
MockDataGenerator_getAllEmployees(rest, storage, log, t) ==
    IF rest = <<>> THEN [employees |-> <<>>, encryptedStorage |-> storage, accessLog |-> log]
    ELSE LET r == retrieveDecrypted(storage, log,
                                    "employee:" \o Head(rest).employeeId, t)
             more == MockDataGenerator_getAllEmployees(Tail(rest), r.encryptedStorage,
                                                       r.accessLog, t)
         IN  [employees |-> (IF r.value = Null THEN <<>> ELSE <<r.value>>) \o more.employees,
              encryptedStorage |-> more.encryptedStorage,
              accessLog |-> more.accessLog]

\* the loop of MockDataGenerator.getComplianceStatistics over the rest of
\* the enumerated employees: the verdicts of its checkCompliance calls
RECURSIVE MockDataGenerator_verdicts(_, _, _, _, _)
MockDataGenerator_verdicts(rest, policyId, storage, log, t) ==
    IF rest = <<>> THEN [verdicts |-> <<>>, encryptedStorage |-> storage, accessLog |-> log]
    ELSE LET c == MockDataGenerator_checkCompliance(storage, log, Head(rest).employeeId,
                                                    policyId, t, t)
             more == MockDataGenerator_verdicts(Tail(rest), policyId, c.encryptedStorage,
                                                c.accessLog, t)
         IN  [verdicts |-> <<c.result.compliant>> \o more.verdicts,
              encryptedStorage |-> more.encryptedStorage,
              accessLog |-> more.accessLog]

\* MockDataGenerator.getComplianceStatistics entered at t1, its reads after
\* the first await made at t2: the result and the shielded state afterwards
MockDataGenerator_getComplianceStatistics(emps, storage, log, policyId, t1, t2) ==
    LET all == MockDataGenerator_getAllEmployees(emps, storage, log, t1)
        v == MockDataGenerator_verdicts(all.employees, policyId,
                                        all.encryptedStorage, all.accessLog, t2)
    IN  [result |-> MockDataGenerator_statistics(Len(all.employees),
                                                 CountCompliant(v.verdicts)),
         encryptedStorage |-> v.encryptedStorage,
         accessLog |-> v.accessLog]

-----------------------------------------------------------------------------
(* The services as a state machine.  A run exercises one of the two        *)
(* modules: the client's DataService, built around an injected private     *)
(* state manager, or the mock-data package's MockDataGenerator singleton,  *)
(* constructed when its module loads.                                      *)

EmployeeIds == {"EMP001", "EMP003", "EMP999"}
PolicyIds == {"POLICY_001", "POLICY_999"}

\* clock advances: a millisecond, a day, 335 days
TickSteps == {[sec |-> 0, ms |-> 1], [sec |-> Days(1), ms |-> 0],
              [sec |-> Days(335), ms |-> 0]}

\* time a call may take between its entry and its reads after an await
CallDrift == {[sec |-> 0, ms |-> 0], [sec |-> 0, ms |-> 1]}

NoCall == [svc |-> "none"]

PredicateIdle == pRecord = Null /\ pPolicy = Null /\ pNow = Null /\ pOut = Null
StatisticsIdle == sVerdicts = <<>> /\ sOut = Null
RouteIdle == auditResults = <<>> /\ pending = {} /\ responses = <<>> /\ requests = 0
SessionIdle == sessionCalls = 0 /\ heldSessions = {} /\ lastSessionCall = NoCall
SdkClasses == {"OfficialMidnightSDK", "MidnightProtocolSDK"}
SdkIdle == sdk = [class \in SdkClasses |-> FALSE] /\ sdkCalls = 0 /\ lastSdkCall = NoCall
NotCalled == [pc |-> "not called"]
ProverIdle == proverInitialize = NotCalled /\ audits = <<>>
ConfigIdle == cEnv = Null /\ cOut = Null
LoadIdle == lGot = Null /\ lOut = Null
ConnectionIdle ==
    requested = [class \in SdkClasses |-> <<>>] /\ timers = [class \in SdkClasses |-> <<>>]
DashboardIdle ==
    /\ dashEmployees = <<>> /\ dashAuditResults = <<>> /\ isRunningAudit = FALSE
    /\ selectedEmployee = Null /\ dashRun = NotCalled
AppIdle == LoadIdle /\ ConnectionIdle /\ DashboardIdle
ClientIdle == SessionIdle /\ SdkIdle /\ ProverIdle /\ ConfigIdle /\ AppIdle

\* a finished call: the service, the operation and its arguments, the stored
\* data it found, the clock reading it took after its first await, and how
\* its promise settled
Call(svc, op, args, data, read, outcome) ==
    [svc |-> svc, op |-> op, args |-> args, data |-> data, read |-> read,
     outcome |-> outcome]

InitClock ==
    /\ now = [sec |-> StartSec, ms |-> 0]
    /\ ticks = 0
    /\ calls = 0
    /\ lastCall = NoCall
    /\ PredicateIdle /\ StatisticsIdle /\ RouteIdle /\ ClientIdle

\* new DataService(privateStateManager)
InitDataService ==
    /\ subject = "DataService"
    /\ privateStateManager \in
          [kind : {"MidnightPrivateStateManager", "MockShieldedState"},
           encryptedStorage : {EmptyMap}, accessLog : {<<>>}]
    /\ isInitialized = FALSE
    /\ initializeOutcome = Undefined
    /\ employees = <<>>
    /\ policies = <<>>
    /\ encryptedStorage = EmptyMap
    /\ accessLog = <<>>
    /\ initPc = 0

\* new MockDataGenerator(): the constructor calls initializeData, which runs
\* up to its first await, the one on the first storeEncrypted
InitMockDataGenerator ==
    /\ subject = "MockDataGenerator"
    /\ privateStateManager = [kind |-> "MidnightPrivateStateManager",
                              encryptedStorage |-> EmptyMap, accessLog |-> <<>>]
    /\ isInitialized = FALSE
    /\ initializeOutcome = Undefined
    /\ employees = MockEmployees(now)
    /\ policies = MockPolicies(now)
    /\ LET first == InitItems(employees, policies)[1]
           stored == storeEncrypted(EmptyMap, <<>>, first.key, first.data, now)
       IN  /\ encryptedStorage = stored.encryptedStorage
           /\ accessLog = stored.accessLog
    /\ initPc = 1

Init == InitClock /\ (InitDataService \/ InitMockDataGenerator)

\* the wall clock advances; initializeData, whose awaits are on settled
\* promises, has run to its end by then
Tick ==
    /\ ticks < MaxTicks
    /\ initPc = Len(InitItems(employees, policies))
    /\ \E step \in TickSteps : now' = TimePlus(now, step)
    /\ ticks' = ticks + 1
    /\ UNCHANGED <<subject, privateStateManager, isInitialized, initializeOutcome,
                   employees, policies, encryptedStorage, accessLog, initPc,
                   calls, lastCall>>
    /\ UNCHANGED <<predicateVars, statisticsVars, routeVars, clientVars>>

\* MockDataGenerator.initializeData resumes after an await and stores the
\* next employee or policy
initializeData ==
    /\ subject = "MockDataGenerator"
    /\ initPc < Len(InitItems(employees, policies))
    /\ LET item == InitItems(employees, policies)[initPc + 1]
           stored == storeEncrypted(encryptedStorage, accessLog, item.key, item.data, now)
       IN  /\ encryptedStorage' = stored.encryptedStorage
           /\ accessLog' = stored.accessLog
    /\ initPc' = initPc + 1
    /\ UNCHANGED <<now, ticks, subject, privateStateManager, isInitialized,
                   initializeOutcome, employees, policies, calls, lastCall>>
    /\ UNCHANGED <<predicateVars, statisticsVars, routeVars, clientVars>>

\* DataService.initialize: loadInitialData stores the seeded records; the
\* MidnightPrivateStateManager's storeEncrypted throws on the first of them
DS_initialize ==
    /\ subject = "DataService"
    /\ ~isInitialized
    /\ IF privateStateManager.kind = "MidnightPrivateStateManager"
       THEN /\ initializeOutcome' = Throw(StorageNotImplemented)
            /\ UNCHANGED <<privateStateManager, isInitialized>>
       ELSE /\ privateStateManager' =
                  StoreAll(privateStateManager,
                           InitItems(createInitialEmployeeData(now),
                                     createInitialPolicyData(now)), 1, now)
            /\ isInitialized' = TRUE
            /\ initializeOutcome' = Return(Undefined)
    /\ UNCHANGED <<now, ticks, subject, employees, policies, encryptedStorage,
                   accessLog, initPc, calls, lastCall>>
    /\ UNCHANGED <<predicateVars, statisticsVars, routeVars, clientVars>>

DataServiceData ==
    [isInitialized |-> isInitialized, stored |-> privateStateManager.encryptedStorage]

DS_checkCompliance(employeeId, policyId) ==
    /\ subject = "DataService"
    /\ calls < MaxCalls
    /\ \E d \in CallDrift :
          LET t2 == TimePlus(now, d)
          IN  /\ now' = t2
              /\ lastCall' = Call("DataService", "checkCompliance",
                                  <<employeeId, policyId>>, DataServiceData, t2,
                                  DataService_checkCompliance(isInitialized, employeeId,
                                                              policyId, now, t2))
    /\ calls' = calls + 1
    /\ UNCHANGED <<ticks, subject, privateStateManager, isInitialized,
                   initializeOutcome, employees, policies, encryptedStorage,
                   accessLog, initPc>>
    /\ UNCHANGED <<predicateVars, statisticsVars, routeVars, clientVars>>

DS_getComplianceStatistics(policyId) ==
    /\ subject = "DataService"
    /\ calls < MaxCalls
    /\ \E d \in CallDrift :
          LET t2 == TimePlus(now, d)
          IN  /\ now' = t2
              /\ lastCall' = Call("DataService", "getComplianceStatistics",
                                  <<policyId>>, DataServiceData, t2,
                                  DataService_getComplianceStatistics(isInitialized,
                                                                      policyId, now, t2))
    /\ calls' = calls + 1
    /\ UNCHANGED <<ticks, subject, privateStateManager, isInitialized,
                   initializeOutcome, employees, policies, encryptedStorage,
                   accessLog, initPc>>
    /\ UNCHANGED <<predicateVars, statisticsVars, routeVars, clientVars>>

Mock_checkCompliance(employeeId, policyId) ==
    /\ subject = "MockDataGenerator"
    /\ calls < MaxCalls
    /\ \E d \in CallDrift :
          LET t2 == TimePlus(now, d)
              c == MockDataGenerator_checkCompliance(encryptedStorage, accessLog,
                                                     employeeId, policyId, now, t2)
          IN  /\ now' = t2
              /\ encryptedStorage' = c.encryptedStorage
              /\ accessLog' = c.accessLog
              /\ lastCall' = Call("MockDataGenerator", "checkCompliance",
                                  <<employeeId, policyId>>, encryptedStorage, t2,
                                  Return(c.result))
    /\ calls' = calls + 1
    /\ UNCHANGED <<ticks, subject, privateStateManager, isInitialized,
                   initializeOutcome, employees, policies, initPc>>
    /\ UNCHANGED <<predicateVars, statisticsVars, routeVars, clientVars>>

Mock_getComplianceStatistics(policyId) ==
    /\ subject = "MockDataGenerator"
    /\ calls < MaxCalls
    /\ \E d \in CallDrift :
          LET t2 == TimePlus(now, d)
              c == MockDataGenerator_getComplianceStatistics(
                       employees, encryptedStorage, accessLog, policyId, now, t2)
          IN  /\ now' = t2
              /\ encryptedStorage' = c.encryptedStorage
              /\ accessLog' = c.accessLog
              /\ lastCall' = Call("MockDataGenerator", "getComplianceStatistics",
                                  <<policyId>>, encryptedStorage, t2, Return(c.result))
    /\ calls' = calls + 1
    /\ UNCHANGED <<ticks, subject, privateStateManager, isInitialized,
                   initializeOutcome, employees, policies, initPc>>
    /\ UNCHANGED <<predicateVars, statisticsVars, routeVars, clientVars>>

Next ==
    \/ Tick
    \/ initializeData
    \/ DS_initialize
    \/ \E e \in EmployeeIds, p \in PolicyIds : DS_checkCompliance(e, p)
    \/ \E p \in PolicyIds : DS_getComplianceStatistics(p)
    \/ \E e \in EmployeeIds, p \in PolicyIds : Mock_checkCompliance(e, p)
    \/ \E p \in PolicyIds : Mock_getComplianceStatistics(p)

Spec == Init /\ [][Next]_vars

-----------------------------------------------------------------------------
(* The predicate on bounded inputs: every implementation applied to a      *)
(* resolved record and policy at a clock reading.                          *)

AgeDaysSample == {0, 30, 180, 181, 365, 366, 400}
ScoreSample == {0, 75, 78, 79, 80, 81, 84, 85, 86, 92, 100}
MsSample == {0, 1, 999}

PredicateDates ==
    {StartSec - Days(d) + k : d \in AgeDaysSample, k \in (-MaxSkewSec)..MaxSkewSec}
        \cup {1680000000, 1650000000}

PredicateRecords ==
    [employeeId : {"EMP"}, trainingA_date : PredicateDates,
     trainingB_score : ScoreSample, managerApproval : BOOLEAN]

PredicatePolicies ==
    [id : {"POLICY"},
     requirements : [trainingA_maxAge : {180, 365}, trainingB_minScore : {80, 85},
                     managerApproval : BOOLEAN]]

ServiceIdle ==
    /\ now = [sec |-> StartSec, ms |-> 0]
    /\ ticks = 0
    /\ privateStateManager = [kind |-> "MidnightPrivateStateManager",
                               encryptedStorage |-> EmptyMap, accessLog |-> <<>>]
    /\ isInitialized = FALSE
    /\ initializeOutcome = Undefined
    /\ employees = <<>>
    /\ policies = <<>>
    /\ encryptedStorage = EmptyMap
    /\ accessLog = <<>>
    /\ initPc = 0
    /\ calls = 0
    /\ lastCall = NoCall
    /\ subject = "none"

InitPredicate ==
    /\ ServiceIdle /\ StatisticsIdle /\ RouteIdle /\ ClientIdle
    /\ pRecord \in PredicateRecords
    /\ pPolicy \in PredicatePolicies
    /\ pNow \in [sec : {StartSec}, ms : MsSample]
    /\ pOut = [impl |-> "none"]

ApplyDataService ==
    /\ pOut' = [impl |-> "DataService",
                result |-> DataService_checkComplianceBody(pRecord, pPolicy, pNow)]
    /\ UNCHANGED <<pRecord, pPolicy, pNow>>
    /\ UNCHANGED <<serviceVars, statisticsVars, routeVars, clientVars>>

ApplyMockDataGenerator ==
    /\ pOut' = [impl |-> "MockDataGenerator",
                result |-> MockDataGenerator_checkComplianceBody(pRecord, pPolicy, pNow)]
    /\ UNCHANGED <<pRecord, pPolicy, pNow>>
    /\ UNCHANGED <<serviceVars, statisticsVars, routeVars, clientVars>>

\* the contract takes whole seconds: currentTime is the clock's second
ApplyIsComplianceValid ==
    /\ pOut' = [impl |-> "isComplianceValid",
                result |-> isComplianceValid(pRecord.trainingA_date,
                                             pRecord.trainingB_score, pNow.sec,
                                             pPolicy.requirements.trainingB_minScore)]
    /\ UNCHANGED <<pRecord, pPolicy, pNow>>
    /\ UNCHANGED <<serviceVars, statisticsVars, routeVars, clientVars>>

NextPredicate == ApplyDataService \/ ApplyMockDataGenerator \/ ApplyIsComplianceValid

SpecPredicate == InitPredicate /\ [][NextPredicate]_vars

-----------------------------------------------------------------------------
(* The aggregation on bounded inputs: the object getComplianceStatistics   *)
(* builds from the verdicts of its loop, one per enumerated employee.      *)

MaxEmployees == 5

VerdictSequences == UNION {[1..n -> BOOLEAN] : n \in 0..MaxEmployees}

InitStatistics ==
    /\ ServiceIdle /\ PredicateIdle /\ RouteIdle /\ ClientIdle
    /\ sVerdicts \in VerdictSequences
    /\ sOut = [impl |-> "none"]

ApplyDataServiceStatistics ==
    /\ sOut' = [impl |-> "DataService",
                result |-> DataService_statistics(Len(sVerdicts),
                                                  CountCompliant(sVerdicts))]
    /\ UNCHANGED sVerdicts
    /\ UNCHANGED <<serviceVars, predicateVars, routeVars, clientVars>>

ApplyMockDataGeneratorStatistics ==
    /\ sOut' = [impl |-> "MockDataGenerator",
                result |-> MockDataGenerator_statistics(Len(sVerdicts),
                                                        CountCompliant(sVerdicts))]
    /\ UNCHANGED sVerdicts
    /\ UNCHANGED <<serviceVars, predicateVars, routeVars, clientVars>>

NextStatistics == ApplyDataServiceStatistics \/ ApplyMockDataGeneratorStatistics

SpecStatistics == InitStatistics /\ [][NextStatistics]_vars

-----------------------------------------------------------------------------
(* The audit-results route.  A JSON object is a function from property     *)
(* names to values; a request body is JSON text or text that does not      *)
(* parse.  A POST handler runs up to await request.json(), and from its     *)
(* resumption to its return without interruption.                           *)

MaxRequests == 3

Malformed == [malformed |-> TRUE]
WellFormed(text) == "json" \in DOMAIN text

RequestTexts ==
    {JSON_stringify([employeeId |-> "EMP001", policyId |-> "POLICY_001",
                     status |-> "compliant"]),
     JSON_stringify([id |-> "AUDIT001", auditor |-> "Somebody Else"]),
     Malformed}

\* what Math.random().toString(16).substring(2, 66) may give
RandomHex == {"8a3f1c", "1c9e07"}

\* what new Date().toISOString() may give
IsoDates == {"2025-01-01T00:00:00.000Z"}

\* { ...target, ...source }: later properties replace earlier ones
Spread(target, source) ==
    [k \in DOMAIN target \cup DOMAIN source |->
        IF k \in DOMAIN source THEN source[k] ELSE target[k]]

\* n.toString().padStart(3, '0') for a natural n
padStart3(n) ==
    (IF n < 10 THEN "00" ELSE IF n < 100 THEN "0" ELSE "") \o ToString(n)

\* the object literal newAuditResult of POST
newAuditResult(length, body, isoDate, random1, random2) ==
    Spread(Spread([id |-> "AUDIT" \o padStart3(length + 1)], body),
           [auditDate |-> isoDate,
            proofHash |-> "0x" \o random1,
            transactionHash |-> "0x" \o random2,
            auditor |-> "System Auditor"])

\* Array.prototype.push mutated: the item goes to the front
push_Front(array, item) == <<item>> \o array

\* Array.prototype.push mutated: the item is written over the last element
push_OverLast(array, item) ==
    IF array = <<>> THEN <<item>> ELSE [array EXCEPT ![Len(array)] = item]

\* Array.prototype.push
push(array, item) == Append(array, item)

InitRoute ==
    /\ ServiceIdle /\ PredicateIdle /\ StatisticsIdle /\ ClientIdle
    /\ RouteIdle

\* POST is called and suspends at await request.json()
POST_call(text) ==
    /\ requests < MaxRequests
    /\ requests' = requests + 1
    /\ pending' = pending \cup {[req |-> requests + 1, text |-> text]}
    /\ UNCHANGED <<auditResults, responses>>
    /\ UNCHANGED <<serviceVars, predicateVars, statisticsVars, clientVars>>

\* POST resumes: request.json() rejected and the catch answers 500, or it
\* gave the body and the entry is built, pushed and answered with 201
POST_resume(req) ==
    \E p \in pending :
        /\ p.req = req
        /\ pending' = pending \ {p}
        /\ IF ~WellFormed(p.text)
           THEN /\ responses' = MapSet(responses, p.req,
                                       [status |-> 500,
                                        body |-> [error |-> "Failed to create audit result"]])
                /\ UNCHANGED auditResults
           ELSE \E isoDate \in IsoDates, random1 \in RandomHex, random2 \in RandomHex :
                   LET new == newAuditResult(Len(auditResults), JSON_parse(p.text),
                                             isoDate, random1, random2)
                   IN  /\ auditResults' = push(auditResults, new)
                       /\ responses' = MapSet(responses, p.req,
                                              [status |-> 201, body |-> new])
        /\ UNCHANGED requests
        /\ UNCHANGED <<serviceVars, predicateVars, statisticsVars, clientVars>>

\* GET answers with the array as it is
GET ==
    /\ requests < MaxRequests
    /\ requests' = requests + 1
    /\ responses' = MapSet(responses, requests + 1,
                           [status |-> 200, body |-> auditResults])
    /\ UNCHANGED <<auditResults, pending>>
    /\ UNCHANGED <<serviceVars, predicateVars, statisticsVars, clientVars>>

NextRoute ==
    \/ \E text \in RequestTexts : POST_call(text)
    \/ \E req \in 1..MaxRequests : POST_resume(req)
    \/ GET

SpecRoute == InitRoute /\ [][NextRoute]_vars

-----------------------------------------------------------------------------
(* Claims about the predicate, under SpecPredicate *)

\* the inputs of the predicate under test, read off without the model's helpers
pElapsedSec == pNow.sec - pRecord.trainingA_date
pMaxAgeSec == pPolicy.requirements.trainingA_maxAge * 86400
pAgeWithinMax == pElapsedSec < pMaxAgeSec \/ (pElapsedSec = pMaxAgeSec /\ pNow.ms = 0)
pScorePasses == pRecord.trainingB_score >= pPolicy.requirements.trainingB_minScore
pApprovalPasses == ~pPolicy.requirements.managerApproval \/ pRecord.managerApproval
pFromCheckCompliance == pOut.impl \in {"DataService", "MockDataGenerator"}

\* C1: for a resolved record and policy, checkCompliance (both classes) answers
\* compliant = TRUE exactly when the age in days is at most trainingA_maxAge,
\* the score is at least trainingB_minScore, and approval is not required or
\* is granted.
C1_CompliantIffAllThreeHold ==
    pFromCheckCompliance =>
        (pOut.result.compliant = (pAgeWithinMax /\ pScorePasses /\ pApprovalPasses))

\* C1 witness: a score equal to the minimum, evaluated by DataService, passes.
C1_Witness ==
    /\ pOut.impl = "DataService"
    /\ pRecord.trainingB_score = pPolicy.requirements.trainingB_minScore
    /\ pOut.result.compliant

pExpectedReasons ==
    (IF pAgeWithinMax THEN <<>>
     ELSE <<"Training A expired " \o ToString((pElapsedSec - pMaxAgeSec) \div 86400)
              \o " days ago">>)
    \o (IF pScorePasses THEN <<>>
        ELSE <<"Training B score (" \o ToString(pRecord.trainingB_score)
                 \o "%) below minimum ("
                 \o ToString(pPolicy.requirements.trainingB_minScore) \o "%)">>)
    \o (IF pApprovalPasses THEN <<>>
        ELSE <<"Manager approval required but not obtained">>)

\* C2: the reasons are one entry per failed condition in the order expiry,
\* score, approval; they are empty exactly when compliant; the day count of
\* the expiry reason is floor(ageDays - maxAge) and is not negative.
C2_ReasonsOnePerFailedCondition ==
    pFromCheckCompliance =>
        /\ pOut.result.reasons = pExpectedReasons
        /\ (pOut.result.reasons = <<>>) = pOut.result.compliant
        /\ ~pAgeWithinMax => (pElapsedSec - pMaxAgeSec) \div 86400 >= 0

\* C2 witness: all three conditions fail and the training expired more than
\* a day ago, evaluated by MockDataGenerator.
C2_Witness ==
    /\ pOut.impl = "MockDataGenerator"
    /\ Len(pOut.result.reasons) = 3
    /\ (pElapsedSec - pMaxAgeSec) \div 86400 > 0

\* whether a checkCompliance result reports the training as expired: its
\* first reason is neither the score reason nor the approval reason
pExpiryReported ==
    /\ pOut.result.reasons # <<>>
    /\ pOut.result.reasons[1] # "Manager approval required but not obtained"
    /\ pOut.result.reasons[1] #
           "Training B score (" \o ToString(pRecord.trainingB_score)
               \o "%) below minimum ("
               \o ToString(pPolicy.requirements.trainingB_minScore) \o "%)"

\* C3: in every implementation a training completed exactly the maximum age
\* before the evaluation time passes the age check, and only a strictly older
\* one is expired (isComplianceValid: maximum 365 days, whole seconds).
C3_BoundaryAgePasses ==
    /\ pFromCheckCompliance => (pExpiryReported = ~pAgeWithinMax)
    /\ (pOut.impl = "isComplianceValid" /\ pScorePasses) =>
           (pOut.result = (pElapsedSec <= 31536000))

\* C3 witness: an age of exactly 365 days under a 365-day policy is not
\* reported as expired by DataService.
C3_Witness ==
    /\ pOut.impl = "DataService"
    /\ pPolicy.requirements.trainingA_maxAge = 365
    /\ pElapsedSec = 31536000 /\ pNow.ms = 0
    /\ ~pExpiryReported

-----------------------------------------------------------------------------
(* Claims about the services, under Spec *)

\* the last call, read off the state
lastWasCheck == lastCall.svc # "none" /\ lastCall.op = "checkCompliance"
lastWasStatistics == lastCall.svc # "none" /\ lastCall.op = "getComplianceStatistics"

\* whether the ids of the last checkCompliance call resolved in the data the
\* call found: the seeded ids for DataService, the stored keys for the mock
lastIdsResolved ==
    IF lastCall.svc = "DataService"
    THEN /\ lastCall.args[1] \in {"EMP001", "EMP002", "EMP003"}
         /\ lastCall.args[2] = "POLICY_001"
    ELSE /\ ("employee:" \o lastCall.args[1]) \in DOMAIN lastCall.data
         /\ ("policy:" \o lastCall.args[2]) \in DOMAIN lastCall.data

\* C4 as stated: a checkCompliance call whose employee or policy id does
\* not resolve returns the not-found result and does not throw, in every
\* state of the service.
C4_NotFoundNeverThrows ==
    (lastWasCheck /\ ~lastIdsResolved) => lastCall.outcome = Return(NotFoundResult)

\* C4: a checkCompliance call whose employee or policy id does not resolve
\* returns the not-found result without throwing on MockDataGenerator and
\* on an initialized DataService; on a DataService that is not initialized
\* (before initialize, or after it failed) the call rejects with
\* 'Data service not initialized'.
C4_NotFoundUnlessUninitialized ==
    (lastWasCheck /\ ~lastIdsResolved) =>
        IF lastCall.svc = "DataService" /\ ~lastCall.data.isInitialized
        THEN lastCall.outcome = Throw(NotInitialized)
        ELSE lastCall.outcome = Return(NotFoundResult)

C4_Witness ==
    /\ lastWasCheck
    /\ lastCall.svc = "DataService"
    /\ lastCall.args = <<"EMP999", "POLICY_001">>
    /\ initializeOutcome = Throw(StorageNotImplemented)
    /\ ~isInitialized
    /\ lastCall.outcome = Throw(NotInitialized)

\* whether the service holds the data the last call found
lastDataUnchanged ==
    IF lastCall.svc = "DataService" THEN lastCall.data = DataServiceData
    ELSE lastCall.data = encryptedStorage

\* how the last checkCompliance call settles when it is made again now
lastCheckRepeatedNow ==
    IF lastCall.svc = "DataService"
    THEN DataService_checkCompliance(isInitialized, lastCall.args[1],
                                     lastCall.args[2], now, now)
    ELSE Return(MockDataGenerator_checkCompliance(encryptedStorage, accessLog,
                                                  lastCall.args[1], lastCall.args[2],
                                                  now, now).result)

reasonsBesidesExpiry(outcome) ==
    LET timeless(r) ==
            \/ r = ApprovalReason
            \/ r = "Employee or policy not found"
            \/ \E score \in 0..100, minScore \in {80, 85} :
                  r = ScoreReason(score, minScore)
    IN  SelectSeq(outcome.value.reasons, timeless)

employeesThen ==
    IF lastCall.svc = "DataService"
    THEN DataService_getAllEmployees(lastCall.data.isInitialized, lastCall.read).value
    ELSE MockDataGenerator_getAllEmployees(employees, lastCall.data, <<>>,
                                           lastCall.read).employees

\* the verdict checkCompliance gives on an employee under the policy of the
\* call, on the same data and at the same reading
compliantThen(employee) ==
    IF lastCall.svc = "DataService"
    THEN DataService_checkCompliance(lastCall.data.isInitialized, employee.employeeId,
                                     lastCall.args[1], lastCall.read,
                                     lastCall.read).value.compliant
    ELSE MockDataGenerator_checkCompliance(lastCall.data, <<>>, employee.employeeId,
                                           lastCall.args[1], lastCall.read,
                                           lastCall.read).result.compliant

policyResolvedThen ==
    IF lastCall.svc = "DataService"
    THEN DataService_getPolicy(lastCall.data.isInitialized, lastCall.args[1],
                               lastCall.read).value # Null
    ELSE ("policy:" \o lastCall.args[1]) \in DOMAIN lastCall.data

callReturned == calls' = calls + 1

\* C8: a checkCompliance or getComplianceStatistics call changes no stored
\* record: the shielded-storage map of MockDataGenerator, its employee and
\* policy lists, the private state manager's contents and the DataService's
\* initialization flag are after the call what they were before it, and the
\* access log only grows at its end.
C8_QueriesLeaveStorageUnchanged ==
    [][callReturned =>
          /\ encryptedStorage' = encryptedStorage
          /\ employees' = employees
          /\ policies' = policies
          /\ privateStateManager' = privateStateManager
          /\ isInitialized' = isInitialized
          /\ Len(accessLog') >= Len(accessLog)
          /\ SubSeq(accessLog', 1, Len(accessLog)) = accessLog]_vars

C8_Witness ==
    /\ lastWasStatistics
    /\ lastCall.svc = "MockDataGenerator"
    /\ lastCall.data = encryptedStorage
    /\ Cardinality(DOMAIN encryptedStorage) = 7
    /\ Len(accessLog) = 7 + 5 + 10
    /\ accessLog[22].action = "read"

-----------------------------------------------------------------------------
(* Claims about the aggregation, under SpecStatistics *)

sTotal == Len(sVerdicts)
sCompliant == Cardinality({i \in 1..Len(sVerdicts) : sVerdicts[i]})
sRate == sOut.result.complianceRate

sCountsRight ==
    /\ sOut.result.totalEmployees = sTotal
    /\ sOut.result.compliantEmployees = sCompliant
    /\ sOut.result.nonCompliantEmployees = sTotal - sCompliant

\* C7 as stated: the rate is 0 when the employee set is empty, with all four
\* fields 0, and otherwise equals 100 * compliantEmployees / totalEmployees,
\* lies in [0, 100], and multiplied by totalEmployees gives
\* 100 * compliantEmployees.
C7_RateIsExactQuotient ==
    sOut.impl # "none" =>
        /\ sCountsRight
        /\ sTotal = 0 => sRate = DoubleZero
        /\ sTotal > 0 =>
              /\ sRate = DoubleDiv(100 * sCompliant, sTotal)
              /\ DoubleLeq(DoubleZero, sRate) /\ DoubleLeq(sRate, DoubleFromInt(100))
              /\ DoubleMulSmall(sRate, sTotal) = DoubleFromInt(100 * sCompliant)

\* |rate - 100 * compliant / total| <= 2^-45, for a rate m * 2^e > 0: in
\* naturals, |total * m - 100 * compliant * 2^-e| <= total * 2^(-45 - e)
sRateNearQuotient ==
    LET scaledRate == BigTrim(BigMulSmall(sRate.m, sTotal, 0))
        scaledQuotient == BigShl(BigFromInt(100 * sCompliant), -sRate.e)
        slack == BigShl(BigFromInt(sTotal), (-45) - sRate.e)
    IN  /\ sRate.e <= -45
        /\ BigLeq(scaledRate, BigTrim(BigAdd(scaledQuotient, slack, 0)))
        /\ BigLeq(scaledQuotient, BigTrim(BigAdd(scaledRate, slack, 0)))

\* C7: the rate is 0 when the employee set is empty, with all four fields
\* 0; otherwise it is the double (compliantEmployees / totalEmployees) * 100,
\* rounded after the division and after the multiplication: it lies in
\* [0, 100], is 0 exactly when nobody is compliant and 100 exactly when
\* everybody is, and is within 2^-45 of 100 * compliantEmployees /
\* totalEmployees.
C7_RateIsRoundedQuotient ==
    sOut.impl # "none" =>
        /\ sCountsRight
        /\ sTotal = 0 => sRate = DoubleZero
        /\ sTotal > 0 =>
              /\ DoubleLeq(DoubleZero, sRate) /\ DoubleLeq(sRate, DoubleFromInt(100))
              /\ sRate = DoubleZero <=> sCompliant = 0
              /\ sRate = DoubleFromInt(100) <=> sCompliant = sTotal
              /\ sCompliant > 0 => sRateNearQuotient

C7_Witness ==
    /\ sOut.impl = "DataService"
    /\ sTotal = 3 /\ sCompliant = 2
    /\ sRate # DoubleDiv(200, 3)
    /\ sRateNearQuotient

-----------------------------------------------------------------------------
(* Claims about the audit-results route, under SpecRoute *)

answered(status) == {req \in DOMAIN responses : responses[req].status = status}

\* C9: the log is append-only and read in insertion order: no step removes,
\* reorders or rewrites an entry, a POST answering 201 appends at the end
\* the entry it returns, and a GET returns the whole log as it is.
C9_LogAppendOnly ==
    [][/\ Len(auditResults') >= Len(auditResults)
       /\ SubSeq(auditResults', 1, Len(auditResults)) = auditResults
       /\ \A req \in (DOMAIN responses') \ (DOMAIN responses) :
             /\ responses'[req].status = 201 =>
                   auditResults' = Append(auditResults, responses'[req].body)
             /\ responses'[req].status = 200 =>
                   responses'[req].body = auditResults'
             /\ responses'[req].status # 201 => auditResults' = auditResults]_vars

C9_Witness ==
    /\ Len(auditResults) = 2
    /\ answered(201) = {1, 2}
    /\ 3 \in answered(200)
    /\ responses[3].body = auditResults
    /\ auditResults[1] = responses[1].body
    /\ auditResults[2] = responses[2].body

\* C10: for every interleaving of POST requests suspended at
\* await request.json(), the log holds one entry for each POST that answered
\* 201 and nothing else: its length is the number of 201 responses, and every
\* returned entry occurs in the log as often as it was returned.
C10_OneEntryPerCreated ==
    /\ Len(auditResults) = Cardinality(answered(201))
    /\ \A req \in answered(201) :
          Cardinality({i \in 1..Len(auditResults) : auditResults[i] = responses[req].body})
              = Cardinality({other \in answered(201) :
                                responses[other].body = responses[req].body})

\* two POSTs overlapped: the second to arrive appended first
C10_Witness ==
    /\ answered(201) = {1, 2}
    /\ answered(500) = {3}
    /\ pending = {}
    /\ Len(auditResults) = 2
    /\ auditResults[1] = responses[2].body
    /\ auditResults[2] = responses[1].body
    /\ auditResults[1] # auditResults[2]

-----------------------------------------------------------------------------
(* Audit sessions.  DataService keeps them in its injected private state   *)
(* manager under "audit:<id>"; MockDataGenerator keeps them in its         *)
(* MockShieldedState.  The manager DataService is built around is the      *)
(* client's MidnightPrivateStateManager, an in-memory MockShieldedState, or *)
(* a manager over a store that a call may find unreachable.                *)

MaxSessionCalls == 2

SessionStatuses == {"pending", "in-progress", "completed", "failed"}
EmployeeIdLists == {<<"EMP001">>, <<"EMP001", "EMP003">>}
AuditorIds == {"AUDITOR_1"}
RandomSuffixes == {"k3x9a"}

RetrievalNotImplemented ==
    "Actual Midnight Protocol encrypted retrieval not yet implemented. Please use the official Midnight Protocol SDK when available."

StoreUnreachable == "private state store unreachable"

\* `AUDIT_${Date.now()}_${Math.random().toString(36).substring(7)}`
AuditSessionId(t, random) ==
    "AUDIT_" \o ToString(t.sec) \o padStart3(t.ms) \o "_" \o random

\* the session object createAuditSession builds: the id from the first
\* Date.now(), created from the second
newAuditSession(policyId, auditorId, employeeIds, t1, t2, random) ==
    [id |-> AuditSessionId(t1, random), policyId |-> policyId,
     auditorId |-> auditorId, employees |-> employeeIds, status |-> "pending",
     created |-> t2]

\* MidnightPrivateStateManager.storeActualEncryptedData
storeActualEncryptedData == Throw(StorageNotImplemented)

\* MidnightPrivateStateManager.retrieveActualEncryptedData
retrieveActualEncryptedData == Throw(RetrievalNotImplemented)

\* MidnightPrivateStateManager.storeEncrypted: the error of storeActualEncryptedData is
\* logged and thrown again
MidnightPrivateStateManager_storeEncrypted ==
    IF storeActualEncryptedData.kind = "throw" THEN storeActualEncryptedData ELSE Return(Undefined)

\* MidnightPrivateStateManager.retrieveDecrypted: the error of
\* retrieveActualEncryptedData is logged and null is returned
MidnightPrivateStateManager_retrieveDecrypted ==
    IF retrieveActualEncryptedData.kind = "throw" THEN Return(Null) ELSE retrieveActualEncryptedData

\* this.privateStateManager.storeEncrypted(key, data) at clock reading t, by
\* the class of the injected manager: how the promise settles and the manager
\* afterwards
PrivateStateManager_storeEncrypted(psm, key, data, t, reachable) ==
    IF psm.kind = "MidnightPrivateStateManager"
    THEN [outcome |-> MidnightPrivateStateManager_storeEncrypted, psm |-> psm]
    ELSE IF psm.kind = "MockShieldedState" \/ reachable
    THEN LET stored == storeEncrypted(psm.encryptedStorage, psm.accessLog, key, data, t)
         IN  [outcome |-> Return(Undefined),
              psm |-> [psm EXCEPT !.encryptedStorage = stored.encryptedStorage,
                                  !.accessLog = stored.accessLog]]
    ELSE [outcome |-> Throw(StoreUnreachable), psm |-> psm]

\* this.privateStateManager.retrieveDecrypted(key) at clock reading t
PrivateStateManager_retrieveDecrypted(psm, key, t, reachable) ==
    IF psm.kind = "MidnightPrivateStateManager"
    THEN [outcome |-> MidnightPrivateStateManager_retrieveDecrypted, psm |-> psm]
    ELSE IF psm.kind = "MockShieldedState" \/ reachable
    THEN LET read == retrieveDecrypted(psm.encryptedStorage, psm.accessLog, key, t)
         IN  [outcome |-> Return(read.value),
              psm |-> [psm EXCEPT !.accessLog = read.accessLog]]
    ELSE [outcome |-> Throw(StoreUnreachable), psm |-> psm]

\* DataService.createAuditSession mutated: a failed store is logged and the
\* session is returned all the same
DataService_createAuditSession_SwallowsStoreError(initialized, psm, policyId, auditorId, employeeIds, t1, t2, random, reachable) ==
    IF ~initialized THEN [outcome |-> Throw(NotInitialized), psm |-> psm]
    ELSE LET session == newAuditSession(policyId, auditorId, employeeIds, t1, t2, random)
             stored == PrivateStateManager_storeEncrypted(
                           psm, "audit:" \o session.id, session, t2, reachable)
         IN  [outcome |-> Return(session), psm |-> stored.psm]

\* DataService.createAuditSession
DataService_createAuditSession(initialized, psm, policyId, auditorId, employeeIds, t1, t2, random, reachable) ==
    IF ~initialized THEN [outcome |-> Throw(NotInitialized), psm |-> psm]
    ELSE LET session == newAuditSession(policyId, auditorId, employeeIds, t1, t2, random)
             stored == PrivateStateManager_storeEncrypted(
                           psm, "audit:" \o session.id, session, t2, reachable)
         IN  [outcome |-> IF stored.outcome.kind = "throw" THEN stored.outcome
                          ELSE Return(session),
              psm |-> stored.psm]

\* DataService.updateAuditSession
DataService_updateAuditSession(initialized, psm, session, t, reachable) ==
    IF ~initialized THEN [outcome |-> Throw(NotInitialized), psm |-> psm]
    ELSE LET stored == PrivateStateManager_storeEncrypted(
                           psm, "audit:" \o session.id, session, t, reachable)
         IN  [outcome |-> IF stored.outcome.kind = "throw" THEN stored.outcome
                          ELSE Return(Undefined),
              psm |-> stored.psm]

\* DataService.getAuditSession: an error of the retrieval is logged and null
\* is returned
DataService_getAuditSession(initialized, psm, sessionId, t, reachable) ==
    IF ~initialized THEN [outcome |-> Throw(NotInitialized), psm |-> psm]
    ELSE LET read == PrivateStateManager_retrieveDecrypted(
                         psm, "audit:" \o sessionId, t, reachable)
         IN  [outcome |-> IF read.outcome.kind = "throw" THEN Return(Null)
                          ELSE read.outcome,
              psm |-> read.psm]

\* MockDataGenerator.createAuditSession
MockDataGenerator_createAuditSession(storage, log, policyId, auditorId, employeeIds, t1, t2, random) ==
    LET session == newAuditSession(policyId, auditorId, employeeIds, t1, t2, random)
        stored == storeEncrypted(storage, log, "audit:" \o session.id, session, t2)
    IN  [outcome |-> Return(session), encryptedStorage |-> stored.encryptedStorage,
         accessLog |-> stored.accessLog]

NotReached == [kind |-> "none"]

\* a finished audit-session call: what the backing store answered where the
\* call reached it (NotReached where it did not) and how the promise settled
SessionCall(svc, op, args, store, outcome) ==
    [svc |-> svc, op |-> op, args |-> args, store |-> store, outcome |-> outcome]

\* new DataService(privateStateManager), with each manager it can be given
InitSessionService ==
    /\ subject = "DataService"
    /\ privateStateManager \in
          [kind : {"MidnightPrivateStateManager", "MockShieldedState",
                   "UnreliableStateManager"},
           encryptedStorage : {EmptyMap}, accessLog : {<<>>}]
    /\ isInitialized = FALSE
    /\ initializeOutcome = Undefined
    /\ employees = <<>>
    /\ policies = <<>>
    /\ encryptedStorage = EmptyMap
    /\ accessLog = <<>>
    /\ initPc = 0

InitSession == InitClock /\ (InitSessionService \/ InitMockDataGenerator)

\* the clock may have advanced since the last call; both Date.now() reads of
\* createAuditSession are made in one synchronous object literal and take the
\* same reading
DS_createAuditSession(policyId, auditorId, employeeIds, random, reachable) ==
    /\ subject = "DataService"
    /\ sessionCalls < MaxSessionCalls
    /\ \E d \in CallDrift :
          LET t == TimePlus(now, d)
              session == newAuditSession(policyId, auditorId, employeeIds, t, t, random)
              c == DataService_createAuditSession(
                       isInitialized, privateStateManager, policyId, auditorId,
                       employeeIds, t, t, random, reachable)
          IN  /\ now' = t
              /\ privateStateManager' = c.psm
              /\ heldSessions' = IF c.outcome.kind = "return"
                                 THEN heldSessions \cup {c.outcome.value}
                                 ELSE heldSessions
              /\ lastSessionCall' =
                    SessionCall("DataService", "createAuditSession",
                                <<policyId, auditorId, employeeIds>>,
                                IF isInitialized
                                THEN PrivateStateManager_storeEncrypted(
                                         privateStateManager, "audit:" \o session.id,
                                         session, t, reachable).outcome
                                ELSE NotReached,
                                c.outcome)
    /\ sessionCalls' = sessionCalls + 1
    /\ UNCHANGED <<ticks, subject, isInitialized, initializeOutcome, employees,
                   policies, encryptedStorage, accessLog, initPc, calls, lastCall>>
    /\ UNCHANGED <<predicateVars, statisticsVars, routeVars, appVars, sdkVars, proverVars, configVars>>

\* a caller changes the status or the employee list of a session it holds and
\* hands it to updateAuditSession
DS_updateAuditSession(status, employeeIds, reachable) ==
    /\ subject = "DataService"
    /\ sessionCalls < MaxSessionCalls
    /\ \E held \in heldSessions :
          LET session == [held EXCEPT !.status = status, !.employees = employeeIds]
              c == DataService_updateAuditSession(isInitialized, privateStateManager,
                                                  session, now, reachable)
          IN  /\ privateStateManager' = c.psm
              /\ lastSessionCall' =
                    SessionCall("DataService", "updateAuditSession", <<session>>,
                                IF isInitialized
                                THEN PrivateStateManager_storeEncrypted(
                                         privateStateManager, "audit:" \o session.id,
                                         session, now, reachable).outcome
                                ELSE NotReached,
                                c.outcome)
    /\ sessionCalls' = sessionCalls + 1
    /\ UNCHANGED <<now, ticks, subject, isInitialized, initializeOutcome, employees,
                   policies, encryptedStorage, accessLog, initPc, calls, lastCall,
                   heldSessions>>
    /\ UNCHANGED <<predicateVars, statisticsVars, routeVars, appVars, sdkVars, proverVars, configVars>>

UnknownSessionId == "AUDIT_0_none"

DS_getAuditSession(known, reachable) ==
    /\ subject = "DataService"
    /\ sessionCalls < MaxSessionCalls
    /\ \E sessionId \in IF known THEN {h.id : h \in heldSessions} ELSE {UnknownSessionId} :
          LET c == DataService_getAuditSession(isInitialized, privateStateManager,
                                               sessionId, now, reachable)
          IN  /\ privateStateManager' = c.psm
              /\ heldSessions' = IF c.outcome.kind = "return" /\ c.outcome.value # Null
                                 THEN heldSessions \cup {c.outcome.value}
                                 ELSE heldSessions
              /\ lastSessionCall' =
                    SessionCall("DataService", "getAuditSession", <<sessionId>>,
                                IF isInitialized
                                THEN PrivateStateManager_retrieveDecrypted(
                                         privateStateManager, "audit:" \o sessionId,
                                         now, reachable).outcome
                                ELSE NotReached,
                                c.outcome)
    /\ sessionCalls' = sessionCalls + 1
    /\ UNCHANGED <<now, ticks, subject, isInitialized, initializeOutcome, employees,
                   policies, encryptedStorage, accessLog, initPc, calls, lastCall>>
    /\ UNCHANGED <<predicateVars, statisticsVars, routeVars, appVars, sdkVars, proverVars, configVars>>

Mock_createAuditSession(policyId, auditorId, employeeIds, random) ==
    /\ subject = "MockDataGenerator"
    /\ sessionCalls < MaxSessionCalls
    /\ \E d \in CallDrift :
          LET t == TimePlus(now, d)
              c == MockDataGenerator_createAuditSession(
                       encryptedStorage, accessLog, policyId, auditorId, employeeIds,
                       t, t, random)
          IN  /\ now' = t
              /\ encryptedStorage' = c.encryptedStorage
              /\ accessLog' = c.accessLog
              /\ heldSessions' = heldSessions \cup {c.outcome.value}
              /\ lastSessionCall' =
                    SessionCall("MockDataGenerator", "createAuditSession",
                                <<policyId, auditorId, employeeIds>>,
                                Return(Undefined), c.outcome)
    /\ sessionCalls' = sessionCalls + 1
    /\ UNCHANGED <<ticks, subject, privateStateManager, isInitialized,
                   initializeOutcome, employees, policies, initPc, calls, lastCall>>
    /\ UNCHANGED <<predicateVars, statisticsVars, routeVars, appVars, sdkVars, proverVars, configVars>>

StoreKeys == {"employee:EMP001", "audit:" \o UnknownSessionId}

\* a direct call of the client's MidnightPrivateStateManager.storeEncrypted
PSM_storeEncrypted(key) ==
    /\ subject = "DataService"
    /\ privateStateManager.kind = "MidnightPrivateStateManager"
    /\ sessionCalls < MaxSessionCalls
    /\ lastSessionCall' =
          SessionCall("MidnightPrivateStateManager", "storeEncrypted", <<key>>,
                      storeActualEncryptedData,
                      MidnightPrivateStateManager_storeEncrypted)
    /\ sessionCalls' = sessionCalls + 1
    /\ UNCHANGED <<now, ticks, subject, privateStateManager, isInitialized,
                   initializeOutcome, employees, policies, encryptedStorage,
                   accessLog, initPc, calls, lastCall, heldSessions>>
    /\ UNCHANGED <<predicateVars, statisticsVars, routeVars, appVars, sdkVars, proverVars, configVars>>

\* a direct call of the client's MidnightPrivateStateManager.retrieveDecrypted
PSM_retrieveDecrypted(key) ==
    /\ subject = "DataService"
    /\ privateStateManager.kind = "MidnightPrivateStateManager"
    /\ sessionCalls < MaxSessionCalls
    /\ lastSessionCall' =
          SessionCall("MidnightPrivateStateManager", "retrieveDecrypted", <<key>>,
                      retrieveActualEncryptedData,
                      MidnightPrivateStateManager_retrieveDecrypted)
    /\ sessionCalls' = sessionCalls + 1
    /\ UNCHANGED <<now, ticks, subject, privateStateManager, isInitialized,
                   initializeOutcome, employees, policies, encryptedStorage,
                   accessLog, initPc, calls, lastCall, heldSessions>>
    /\ UNCHANGED <<predicateVars, statisticsVars, routeVars, appVars, sdkVars, proverVars, configVars>>

NextSession ==
    \/ initializeData
    \/ DS_initialize
    \/ \E p \in PolicyIds, a \in AuditorIds, e \in EmployeeIdLists,
          r \in RandomSuffixes, reachable \in BOOLEAN :
          DS_createAuditSession(p, a, e, r, reachable)
    \/ \E st \in SessionStatuses, e \in EmployeeIdLists, reachable \in BOOLEAN :
          DS_updateAuditSession(st, e, reachable)
    \/ \E known \in BOOLEAN, reachable \in BOOLEAN : DS_getAuditSession(known, reachable)
    \/ \E p \in PolicyIds, a \in AuditorIds, e \in EmployeeIdLists,
          r \in RandomSuffixes : Mock_createAuditSession(p, a, e, r)
    \/ \E key \in StoreKeys : PSM_storeEncrypted(key)
    \/ \E key \in StoreKeys : PSM_retrieveDecrypted(key)

SpecSession == InitSession /\ [][NextSession]_vars

\* the session stored under "audit:<id>" in a shielded storage map, or null
StoredSession(storage, id) ==
    IF ("audit:" \o id) \in DOMAIN storage
    THEN JSON_parse(mockDecrypt(storage["audit:" \o id]))
    ELSE Null

\* pending -> in-progress -> {completed, failed}, a status staying put included
StatusForward(before, after) ==
    \/ after = before
    \/ before = "pending" /\ after \in {"in-progress", "completed", "failed"}
    \/ before = "in-progress" /\ after \in {"completed", "failed"}

updateAuditSessionStep ==
    /\ sessionCalls' = sessionCalls + 1
    /\ lastSessionCall'.op = "updateAuditSession"

\* C11: across every updateAuditSession call, each stored session's status
\* stays put or moves forward along pending -> in-progress -> {completed,
\* failed}, and its employee id list stays the one it was stored with.
C11_SessionsOnlyMoveForward ==
    [][updateAuditSessionStep =>
         \A held \in heldSessions :
            LET before == StoredSession(privateStateManager.encryptedStorage, held.id)
                after == StoredSession(privateStateManager'.encryptedStorage, held.id)
            IN  (before # Null /\ after # Null) =>
                   /\ StatusForward(before.status, after.status)
                   /\ after.employees = before.employees]_vars


lastWasCreateAuditSession ==
    /\ lastSessionCall.svc \in {"DataService", "MockDataGenerator"}
    /\ lastSessionCall.op = "createAuditSession"

SessionStorage ==
    IF subject = "DataService" THEN privateStateManager.encryptedStorage
    ELSE encryptedStorage

\* the session the last createAuditSession returned is pending, carries the
\* arguments, and is what is stored under its id
createdAsAsked ==
    LET session == lastSessionCall.outcome.value
    IN  /\ session.status = "pending"
        /\ session.policyId = lastSessionCall.args[1]
        /\ session.auditorId = lastSessionCall.args[2]
        /\ session.employees = lastSessionCall.args[3]
        /\ StoredSession(SessionStorage, session.id) = session

\* a getAuditSession made now with the id of the session just returned, the
\* store answering, returns that session
readBackReturnsIt ==
    LET session == lastSessionCall.outcome.value
    IN  DataService_getAuditSession(isInitialized, privateStateManager, session.id,
                                    now, TRUE).outcome = Return(session)

\* C12: a createAuditSession whose store succeeded returned a pending session
\* with the given policyId, auditorId and employees, stored under its id so
\* that a following getAuditSession(session.id) returns it; one whose store
\* failed rejected.
C12_CreateStoresPendingSession ==
    lastWasCreateAuditSession =>
        /\ lastSessionCall.store.kind = "return" =>
              /\ lastSessionCall.outcome.kind = "return"
              /\ createdAsAsked
              /\ subject = "DataService" => readBackReturnsIt
        /\ lastSessionCall.store.kind = "throw" => lastSessionCall.outcome.kind = "throw"

\* an initialized DataService that has handed out a session and whose last
\* createAuditSession found the store failing
C12_Witness ==
    /\ lastWasCreateAuditSession
    /\ isInitialized
    /\ lastSessionCall.store.kind = "throw"
    /\ \E held \in heldSessions :
          /\ held.employees = <<"EMP001", "EMP003">>
          /\ StoredSession(SessionStorage, held.id) = held

lastWasLookup ==
    /\ lastSessionCall.svc \in {"DataService", "MidnightPrivateStateManager"}
    /\ lastSessionCall.op \in {"getAuditSession", "retrieveDecrypted"}

\* C13: a lookup whose backing store failed with an error rejects: the error
\* reaches the caller and is never returned as null.
C13_StoreFailureReachesCaller ==
    (lastWasLookup /\ lastSessionCall.store.kind = "throw") =>
        lastSessionCall.outcome.kind = "throw"

-----------------------------------------------------------------------------
(* The SDK classes: OfficialMidnightSDK (MidnightSDKAdapter.ts) and        *)
(* MidnightProtocolSDK (MidnightProtocolSDK.ts), and the adapter in front  *)
(* of them.                                                                *)

MaxSdkCalls == 2

NotConnected == "Not connected to Midnight Protocol network"

ProofGenerationNotImplemented ==
    "Actual Midnight Protocol proof generation not yet implemented. Please use the official Midnight Protocol SDK when available."

TransactionSubmissionNotImplemented ==
    "Actual Midnight Protocol transaction submission not yet implemented. Please use the official Midnight Protocol SDK when available."

ProofVerificationNotImplemented ==
    "Actual Midnight Protocol proof verification not yet implemented. Please use the official Midnight Protocol SDK when available."

ModuleNotFound == "Cannot find module '@midnight-ntwrk/wallet'"

\* the private methods of both classes
generateActualProof == Throw(ProofGenerationNotImplemented)
submitActualTransaction == Throw(TransactionSubmissionNotImplemented)
verifyActualProof == Throw(ProofVerificationNotImplemented)

\* OfficialMidnightSDK: the guard on isConnected, then the private method,
\* whose error is logged and thrown again
OfficialMidnightSDK_generateProof(isConnected) ==
    IF ~isConnected THEN Throw(NotConnected) ELSE generateActualProof

OfficialMidnightSDK_submitTransaction(isConnected) ==
    IF ~isConnected THEN Throw(NotConnected) ELSE submitActualTransaction

OfficialMidnightSDK_verifyProof(isConnected) ==
    IF ~isConnected THEN Throw(NotConnected) ELSE verifyActualProof

\* MidnightProtocolSDK: the same three operations
MidnightProtocolSDK_generateProof(isConnected) ==
    IF ~isConnected THEN Throw(NotConnected) ELSE generateActualProof

MidnightProtocolSDK_submitTransaction(isConnected) ==
    IF ~isConnected THEN Throw(NotConnected) ELSE submitActualTransaction

MidnightProtocolSDK_verifyProof(isConnected) ==
    IF ~isConnected THEN Throw(NotConnected) ELSE verifyActualProof

\* MidnightSDKAdapter: each operation is handed to the SDK it was built with
MidnightSDKAdapter_generateProof(isOfficialSDK, isConnected) ==
    IF isOfficialSDK THEN OfficialMidnightSDK_generateProof(isConnected)
    ELSE MidnightProtocolSDK_generateProof(isConnected)

MidnightSDKAdapter_submitTransaction(isOfficialSDK, isConnected) ==
    IF isOfficialSDK THEN OfficialMidnightSDK_submitTransaction(isConnected)
    ELSE MidnightProtocolSDK_submitTransaction(isConnected)

MidnightSDKAdapter_verifyProof(isOfficialSDK, isConnected) ==
    IF isOfficialSDK THEN OfficialMidnightSDK_verifyProof(isConnected)
    ELSE MidnightProtocolSDK_verifyProof(isConnected)

\* how connect() can settle: OfficialMidnightSDK waits for a timer;
\* MidnightProtocolSDK imports the @midnight-ntwrk packages, which fails where
\* they are not installed
ConnectOutcomes(class) ==
    IF class = "OfficialMidnightSDK" THEN {Return(Undefined)}
    ELSE {Return(Undefined), Throw(ModuleNotFound)}

\* a finished SDK operation: isConnected as the call found it and how the
\* promise settled
SdkCall(class, op, connected, outcome) ==
    [svc |-> class, op |-> op, connected |-> connected, outcome |-> outcome]

Sdk_connect(class) ==
    /\ sdkCalls < MaxSdkCalls
    /\ \E outcome \in ConnectOutcomes(class) :
          /\ sdk' = [sdk EXCEPT ![class] = IF outcome.kind = "return" THEN TRUE ELSE @]
          /\ lastSdkCall' = SdkCall(class, "connect", sdk[class], outcome)
    /\ sdkCalls' = sdkCalls + 1
    /\ UNCHANGED <<serviceVars, predicateVars, statisticsVars, routeVars, appVars,
                   sessionVars, proverVars, configVars>>

Sdk_generateProof(class) ==
    /\ sdkCalls < MaxSdkCalls
    /\ lastSdkCall' =
          SdkCall(class, "generateProof", sdk[class],
                  MidnightSDKAdapter_generateProof(class = "OfficialMidnightSDK",
                                                   sdk[class]))
    /\ sdkCalls' = sdkCalls + 1
    /\ UNCHANGED <<serviceVars, predicateVars, statisticsVars, routeVars, appVars,
                   sessionVars, proverVars, configVars, sdk>>

Sdk_submitTransaction(class) ==
    /\ sdkCalls < MaxSdkCalls
    /\ lastSdkCall' =
          SdkCall(class, "submitTransaction", sdk[class],
                  MidnightSDKAdapter_submitTransaction(class = "OfficialMidnightSDK",
                                                       sdk[class]))
    /\ sdkCalls' = sdkCalls + 1
    /\ UNCHANGED <<serviceVars, predicateVars, statisticsVars, routeVars, appVars,
                   sessionVars, proverVars, configVars, sdk>>

Sdk_verifyProof(class) ==
    /\ sdkCalls < MaxSdkCalls
    /\ lastSdkCall' =
          SdkCall(class, "verifyProof", sdk[class],
                  MidnightSDKAdapter_verifyProof(class = "OfficialMidnightSDK",
                                                 sdk[class]))
    /\ sdkCalls' = sdkCalls + 1
    /\ UNCHANGED <<serviceVars, predicateVars, statisticsVars, routeVars, appVars,
                   sessionVars, proverVars, configVars, sdk>>

\* the SDK instances and a MidnightPrivateStateManager, freshly constructed
InitSdk ==
    /\ InitClock
    /\ subject = "DataService"
    /\ privateStateManager = [kind |-> "MidnightPrivateStateManager",
                              encryptedStorage |-> EmptyMap, accessLog |-> <<>>]
    /\ isInitialized = FALSE
    /\ initializeOutcome = Undefined
    /\ employees = <<>>
    /\ policies = <<>>
    /\ encryptedStorage = EmptyMap
    /\ accessLog = <<>>
    /\ initPc = 0

NextSdk ==
    \/ \E class \in SdkClasses : Sdk_connect(class)
    \/ \E class \in SdkClasses : Sdk_generateProof(class)
    \/ \E class \in SdkClasses : Sdk_submitTransaction(class)
    \/ \E class \in SdkClasses : Sdk_verifyProof(class)
    \/ \E key \in StoreKeys : PSM_storeEncrypted(key)
    \/ \E key \in StoreKeys : PSM_retrieveDecrypted(key)

SpecSdk == InitSdk /\ [][NextSdk]_vars


\* the "not yet implemented" errors
NotYetImplemented ==
    {Throw(ProofGenerationNotImplemented), Throw(TransactionSubmissionNotImplemented),
     Throw(ProofVerificationNotImplemented), Throw(StorageNotImplemented),
     Throw(RetrievalNotImplemented)}

lastSdkOperationConnected ==
    /\ lastSdkCall.svc \in SdkClasses
    /\ lastSdkCall.op \in {"generateProof", "submitTransaction", "verifyProof"}
    /\ lastSdkCall.connected

lastWasManagerCall ==
    /\ lastSessionCall.svc = "MidnightPrivateStateManager"
    /\ lastSessionCall.op \in {"storeEncrypted", "retrieveDecrypted"}

\* C20: generateProof, submitTransaction and verifyProof on a connected SDK of
\* either class reject with their "not yet implemented" error, and so do
\* MidnightPrivateStateManager.storeEncrypted and retrieveDecrypted.
C20_UnimplementedOperationsReject ==
    /\ lastSdkOperationConnected => lastSdkCall.outcome \in NotYetImplemented
    /\ lastWasManagerCall => lastSessionCall.outcome \in NotYetImplemented

-----------------------------------------------------------------------------
(* ZKComplianceProver: its constructor builds a MidnightSDKAdapter over an *)
(* OfficialMidnightSDK, a MidnightPrivateStateManager and a DataService    *)
(* around that manager.                                                    *)

MaxAudits == 2

EmployeeArgs == {"EMP001", "INVALID_EMP", ""}

TestParams ==
    [policy_hash |-> "0x12345abcdef0000000000000000000000000000",
     audit_id |-> "0x18b8a1c2f00", auditor_public_key |-> "auditor_public_key_test"]

EmptyParams == [policy_hash |-> "", audit_id |-> "", auditor_public_key |-> ""]

AuditParams == {TestParams, EmptyParams}

\* the strings BigInt() accepts once prefixed with 0x
HexStrings == {TestParams.policy_hash, TestParams.audit_id}

LoadFailed == "Failed to load private training data"

ElapsedMs(t1, t2) == (t2.sec - t1.sec) * 1000 + (t2.ms - t1.ms)

\* !data.field for a string field: the field is missing (undefined) or ''
NoText(data, field) == field \notin DOMAIN data \/ data[field] = ""

\* !data.field for a number field: the field is missing (undefined) or 0
NoNumber(data, field) == field \notin DOMAIN data \/ data[field] = 0

\* ZKComplianceProver.validatePrivateData: the error it throws, or none
validatePrivateData(data) ==
    IF NoText(data, "employeeId") \/ NoNumber(data, "trainingA_date")
       \/ NoNumber(data, "trainingB_score") \/ NoText(data, "departmentId")
    THEN Throw("Invalid private data: missing required fields")
    ELSE IF data.trainingB_score < 0 \/ data.trainingB_score > 100
    THEN Throw("Invalid private data: training score out of range")
    ELSE IF data.trainingA_date < 0
    THEN Throw("Invalid private data: invalid training date")
    ELSE Return(Undefined)

\* the fields of PrivateTrainingData that validatePrivateData reads, and the
\* field of the employee record each is copied from
PrivateFields == {"employeeId", "trainingA_date", "trainingB_score", "departmentId"}
CopiedFrom(field) == IF field = "departmentId" THEN "department" ELSE field

\* the privateData literal of loadPrivateData: a field the employee record
\* lacks is copied as undefined, that is, stays missing
toPrivateTrainingData(employeeData) ==
    [field \in {f \in PrivateFields : CopiedFrom(f) \in DOMAIN employeeData}
        |-> employeeData[CopiedFrom(field)]]

\* ZKComplianceProver.loadPrivateData once dataService.getEmployee has
\* settled with got: every error is replaced by LoadFailed
loadPrivateData(got) ==
    IF got.kind = "throw" THEN Throw(LoadFailed)
    ELSE IF got.value = Null THEN Throw(LoadFailed)
    ELSE LET privateData == toPrivateTrainingData(got.value)
         IN  IF validatePrivateData(privateData).kind = "throw" THEN Throw(LoadFailed)
             ELSE Return(privateData)

\* ZKComplianceProver.validateInputData: the error it throws, or none
validateInputData(privateData, publicData) ==
    IF privateData.employeeId = "" THEN Throw("Employee ID is required")
    ELSE IF privateData.trainingA_date <= 0
    THEN Throw("Valid Training A completion date is required")
    ELSE IF privateData.trainingB_score < 0 \/ privateData.trainingB_score > 100
    THEN Throw("Training B score must be between 0 and 100")
    ELSE IF publicData.policy_hash = "" THEN Throw("Policy hash is required")
    ELSE IF publicData.audit_id = "" THEN Throw("Audit ID is required")
    ELSE Return(Undefined)

\* generateComplianceProof up to its await: the error thrown before the SDK
\* is called, or the settled promise of midnightSDK.generateProof
generateComplianceProof_call(privateData, publicData, isConnected) ==
    IF validateInputData(privateData, publicData).kind = "throw"
    THEN validateInputData(privateData, publicData)
    ELSE IF publicData.policy_hash \notin HexStrings \/ publicData.audit_id \notin HexStrings
    THEN Throw("Cannot convert to a BigInt")
    ELSE MidnightSDKAdapter_generateProof(TRUE, isConnected)

\* the steps generateComplianceProof starts: validateInputData, and the SDK's
\* generateProof if the validation and the BigInt conversions let it
stepsOfGenerateComplianceProof(privateData, publicData) ==
    IF validateInputData(privateData, publicData).kind = "throw"
       \/ publicData.policy_hash \notin HexStrings \/ publicData.audit_id \notin HexStrings
    THEN <<"validateInputData">>
    ELSE <<"validateInputData", "generateProof">>

hashSensitiveData(data) == [hash |-> data]

createProofHash(proof, publicData) ==
    hashSensitiveData(<<JSON_stringify(proof), JSON_stringify(publicData)>>)

\* the object runComplianceAudit resolves with from its catch block
AuditFailure(message, verificationTime) ==
    [success |-> FALSE, proofHash |-> "", verificationTime |-> verificationTime,
     error |-> message]

\* the object runComplianceAudit resolves with at its end
AuditSuccess(transactionHash, proofHash, verificationTime) ==
    [success |-> TRUE, transactionHash |-> transactionHash, proofHash |-> proofHash,
     verificationTime |-> verificationTime]

\* runComplianceAudit returns result: its promise resolves
Settled(audit, result) ==
    [audit EXCEPT !.pc = "settled", !.outcome = Return(result)]

\* runComplianceAudit mutated: a load that failed is awaited again
runComplianceAudit_resume_Retrying(audit, isConnected, t) ==
    IF audit.pc = "loadPrivateData" /\ loadPrivateData(audit.awaited).kind = "throw"
    THEN audit
    ELSE Settled(audit, AuditFailure("Proof generation failed", ElapsedMs(audit.startTime, t)))

\* runComplianceAudit mutated: a proof that failed is submitted all the same
runComplianceAudit_resume_SubmitsAnyway(audit, isConnected, t) ==
    IF audit.pc = "loadPrivateData"
    THEN LET loaded == loadPrivateData(audit.awaited)
         IN  IF loaded.kind = "throw"
             THEN Settled(audit, AuditFailure(loaded.error, ElapsedMs(audit.startTime, t)))
             ELSE LET publicData == [current_time |-> t.sec] @@ audit.auditParams
                  IN  [audit EXCEPT !.pc = "generateProof",
                                    !.publicData = publicData,
                                    !.steps = @ \o stepsOfGenerateComplianceProof(
                                                       loaded.value, publicData),
                                    !.awaited = generateComplianceProof_call(
                                                    loaded.value, publicData,
                                                    isConnected)]
    ELSE IF audit.pc = "generateProof"
    THEN IF audit.awaited.kind = "throw"
         THEN [audit EXCEPT !.pc = "submitTransaction",
                            !.steps = Append(@, "submitTransaction"),
                            !.awaited = MidnightSDKAdapter_submitTransaction(TRUE,
                                                                             isConnected)]
         ELSE [audit EXCEPT !.pc = "submitTransaction",
                            !.steps = Append(@, "submitTransaction"),
                            !.proofHash = createProofHash(audit.awaited.value,
                                                          audit.publicData),
                            !.awaited = MidnightSDKAdapter_submitTransaction(TRUE,
                                                                             isConnected)]
    ELSE IF audit.awaited.kind = "throw"
         THEN Settled(audit, AuditFailure("Proof submission failed: " \o audit.awaited.error,
                                          ElapsedMs(audit.startTime, t)))
         ELSE Settled(audit, AuditSuccess(audit.awaited.value.hash, audit.proofHash,
                                          ElapsedMs(audit.startTime, t)))

\* runComplianceAudit resumed at clock reading t after the promise it awaited
\* settled: the invocation afterwards
runComplianceAudit_resume(audit, isConnected, t) ==
    IF audit.pc = "loadPrivateData"
    THEN LET loaded == loadPrivateData(audit.awaited)
         IN  IF loaded.kind = "throw"
             THEN Settled(audit, AuditFailure(loaded.error, ElapsedMs(audit.startTime, t)))
             ELSE LET publicData == [current_time |-> t.sec] @@ audit.auditParams
                  IN  [audit EXCEPT !.pc = "generateProof",
                                    !.publicData = publicData,
                                    !.steps = @ \o stepsOfGenerateComplianceProof(
                                                       loaded.value, publicData),
                                    !.awaited = generateComplianceProof_call(
                                                    loaded.value, publicData,
                                                    isConnected)]
    ELSE IF audit.pc = "generateProof"
    THEN IF audit.awaited.kind = "throw"
         THEN Settled(audit, AuditFailure("Proof generation failed: " \o audit.awaited.error,
                                          ElapsedMs(audit.startTime, t)))
         ELSE [audit EXCEPT !.pc = "submitTransaction",
                            !.steps = Append(@, "submitTransaction"),
                            !.proofHash = createProofHash(audit.awaited.value,
                                                          audit.publicData),
                            !.awaited = MidnightSDKAdapter_submitTransaction(TRUE,
                                                                             isConnected)]
    ELSE IF audit.awaited.kind = "throw"
         THEN Settled(audit, AuditFailure("Proof submission failed: " \o audit.awaited.error,
                                          ElapsedMs(audit.startTime, t)))
         ELSE Settled(audit, AuditSuccess(audit.awaited.value.hash, audit.proofHash,
                                          ElapsedMs(audit.startTime, t)))


\* new ZKComplianceProver(config)
InitProver ==
    /\ InitClock
    /\ subject = "ZKComplianceProver"
    /\ privateStateManager = [kind |-> "MidnightPrivateStateManager",
                              encryptedStorage |-> EmptyMap, accessLog |-> <<>>]
    /\ isInitialized = FALSE
    /\ initializeOutcome = Undefined
    /\ employees = <<>>
    /\ policies = <<>>
    /\ encryptedStorage = EmptyMap
    /\ accessLog = <<>>
    /\ initPc = 0

\* initialize() is called and runs up to the timer OfficialMidnightSDK.connect
\* waits for
Prover_initialize ==
    /\ proverInitialize = NotCalled
    /\ proverInitialize' = [pc |-> "connect"]
    /\ UNCHANGED <<serviceVars, predicateVars, statisticsVars, routeVars, appVars,
                   sessionVars, sdkVars, configVars, audits>>

\* the connect timer fires a second later: the SDK is connected, and
\* dataService.initialize() runs to its end, its stores being rejected by
\* the MidnightPrivateStateManager
Prover_initialize_resume ==
    /\ proverInitialize = [pc |-> "connect"]
    /\ now' = TimePlus(now, [sec |-> 1, ms |-> 0])
    /\ sdk' = [sdk EXCEPT !["OfficialMidnightSDK"] = TRUE]
    /\ IF privateStateManager.kind = "MidnightPrivateStateManager"
       THEN /\ initializeOutcome' = Throw(StorageNotImplemented)
            /\ proverInitialize' = [pc |-> "settled",
                                    outcome |-> Throw(StorageNotImplemented)]
            /\ UNCHANGED <<privateStateManager, isInitialized>>
       ELSE /\ privateStateManager' =
                  StoreAll(privateStateManager,
                           InitItems(createInitialEmployeeData(now'),
                                     createInitialPolicyData(now')), 1, now')
            /\ isInitialized' = TRUE
            /\ initializeOutcome' = Return(Undefined)
            /\ proverInitialize' = [pc |-> "settled", outcome |-> Return(Undefined)]
    /\ UNCHANGED <<ticks, subject, employees, policies, encryptedStorage, accessLog,
                   initPc, calls, lastCall, sdkCalls, lastSdkCall, audits>>
    /\ UNCHANGED <<predicateVars, statisticsVars, routeVars, appVars, sessionVars, configVars>>

\* runComplianceAudit is called and runs up to its first await, the one on
\* dataService.getEmployee inside loadPrivateData
Prover_runComplianceAudit(employeeId, auditParams) ==
    /\ Len(audits) < MaxAudits
    /\ audits' = Append(audits,
                        [employeeId |-> employeeId, auditParams |-> auditParams,
                         startTime |-> now, afterInitialize |-> proverInitialize,
                         pc |-> "loadPrivateData", steps |-> <<"loadPrivateData">>,
                         awaited |-> DataService_getEmployee(isInitialized, employeeId, now),
                         publicData |-> Null, proofHash |-> Null, outcome |-> Null])
    /\ UNCHANGED <<serviceVars, predicateVars, statisticsVars, routeVars, appVars,
                   sessionVars, sdkVars, configVars, proverInitialize>>

\* an invocation resumes after the promise it awaits has settled
Prover_runComplianceAudit_resume(i) ==
    /\ i <= Len(audits)
    /\ audits[i].pc # "settled"
    /\ audits' = [audits EXCEPT
                     ![i] = runComplianceAudit_resume(@, sdk["OfficialMidnightSDK"], now)]
    /\ UNCHANGED <<serviceVars, predicateVars, statisticsVars, routeVars, appVars,
                   sessionVars, sdkVars, configVars, proverInitialize>>

NextProver ==
    \/ Prover_initialize
    \/ Prover_initialize_resume
    \/ \E e \in EmployeeArgs, a \in AuditParams : Prover_runComplianceAudit(e, a)
    \/ \E i \in 1..MaxAudits : Prover_runComplianceAudit_resume(i)

\* a timer that is due fires, and a continuation whose promise has settled
\* is run: the event loop starves neither
SpecProver ==
    /\ InitProver
    /\ [][NextProver]_vars
    /\ WF_vars(Prover_initialize_resume)
    /\ \A i \in 1..MaxAudits : WF_vars(Prover_runComplianceAudit_resume(i))


\* C14: once initialize() has been called it eventually resolves, with the
\* SDK connected and the DataService initialized.
C14_InitializeEventuallyResolves ==
    (proverInitialize.pc = "connect") ~>
        (/\ proverInitialize.pc = "settled"
         /\ proverInitialize.outcome.kind = "return"
         /\ sdk["OfficialMidnightSDK"]
         /\ isInitialized)

\* the settled invocations of runComplianceAudit
settledAudits == {i \in 1..Len(audits) : audits[i].pc = "settled"}

\* C15: a runComplianceAudit for EMP001 with the test's parameters, called
\* after initialize() has settled, resolves with success = true, a non-empty
\* proofHash and a transactionHash.
C15_CompliantEmployeeAuditSucceeds ==
    \A i \in settledAudits :
        (/\ audits[i].employeeId = "EMP001"
         /\ audits[i].auditParams = TestParams
         /\ audits[i].afterInitialize.pc = "settled") =>
            /\ audits[i].outcome.kind = "return"
            /\ audits[i].outcome.value.success
            /\ audits[i].outcome.value.proofHash # ""
            /\ "transactionHash" \in DOMAIN audits[i].outcome.value

\* C16: a runComplianceAudit for an employee id that resolves to no record, or
\* with empty employee id and parameters, rejects.
C16_InvalidAuditRejects ==
    \A i \in settledAudits :
        (\/ audits[i].employeeId = "INVALID_EMP"
         \/ audits[i].employeeId = "" /\ audits[i].auditParams = EmptyParams) =>
            audits[i].outcome.kind = "throw"

\* C17: every runComplianceAudit invocation eventually settles, whatever the
\* other invocations on the same prover are doing.
C17_EveryAuditSettles ==
    \A i \in 1..MaxAudits :
        (Len(audits) >= i) ~> (Len(audits) >= i /\ audits[i].pc = "settled")

\* two invocations for different employees were in flight together and the
\* later one has settled before the earlier one
C17_Witness ==
    /\ Len(audits) = 2
    /\ audits[1].employeeId = "EMP001" /\ audits[2].employeeId = "INVALID_EMP"
    /\ audits[1].pc = "loadPrivateData"
    /\ audits[2].pc = "settled"

-----------------------------------------------------------------------------
(* config/environments.ts: loadConfig over process.env.  A variable of     *)
(* process.env is unset or holds a string.                                 *)

Unset == [set |-> FALSE, value |-> ""]
Var(text) == [set |-> TRUE, value |-> text]

\* !process.env[varName]: unset and the empty string are both falsy
Falsy(variable) == ~variable.set \/ variable.value = ""

\* process.env.X || fallback
OrElse(variable, fallback) == IF Falsy(variable) THEN fallback ELSE variable.value

EnvNames == {"development", "testnet", "mainnet"}

\* the environments table
environments(name) ==
    IF name = "testnet"
    THEN [name |-> "Midnight Testnet", network |-> "testnet",
          rpcUrl |-> "https://testnet.midnight.network", useOfficialSDK |-> TRUE]
    ELSE IF name = "mainnet"
    THEN [name |-> "Midnight Mainnet", network |-> "mainnet",
          rpcUrl |-> "https://mainnet.midnight.network", useOfficialSDK |-> TRUE]
    ELSE [name |-> "Development", network |-> "testnet",
          rpcUrl |-> "http://localhost:8545", useOfficialSDK |-> FALSE]

\* requiredVars mutated: nothing more is required on mainnet
requiredVars_SameEverywhere(env) == <<"MIDNIGHT_PRIVATE_KEY">>

\* requiredVars of validateEnvironmentVariables
requiredVars(env) ==
    IF env = "mainnet" THEN <<"MIDNIGHT_PRIVATE_KEY", "MIDNIGHT_API_KEY">>
    ELSE <<"MIDNIGHT_PRIVATE_KEY">>

\* array.filter(keep)
RECURSIVE FilterMissing(_, _)
FilterMissing(names, processEnv) ==
    IF names = <<>> THEN <<>>
    ELSE IF Falsy(processEnv[Head(names)])
    THEN <<Head(names)>> \o FilterMissing(Tail(names), processEnv)
    ELSE FilterMissing(Tail(names), processEnv)

\* array.join(', ')
RECURSIVE Join(_)
Join(names) ==
    IF names = <<>> THEN ""
    ELSE IF Len(names) = 1 THEN names[1]
    ELSE names[1] \o ", " \o Join(Tail(names))

MissingVariables(names) == "Missing required environment variables: " \o Join(names)

\* validateEnvironmentVariables: the error it throws, or none
validateEnvironmentVariables(env, processEnv) ==
    LET missingVars == FilterMissing(requiredVars(env), processEnv)
    IN  IF Len(missingVars) > 0 THEN Throw(MissingVariables(missingVars))
        ELSE Return(Undefined)

\* loadConfig
loadConfig(processEnv) ==
    LET env == OrElse(processEnv.NODE_ENV, "development")
        environment == IF env \in EnvNames THEN environments(env)
                       ELSE environments("development")
        validated == validateEnvironmentVariables(env, processEnv)
    IN  IF validated.kind = "throw" THEN validated
        ELSE Return([environment |-> environment,
                     wallet |-> [privateKey |->
                                    OrElse(processEnv.MIDNIGHT_PRIVATE_KEY, "")]])

NodeEnvValues ==
    {Unset, Var(""), Var("development"), Var("test"), Var("testnet"), Var("mainnet"),
     Var("production")}

ProcessEnvs ==
    [NODE_ENV : NodeEnvValues,
     MIDNIGHT_PRIVATE_KEY : {Unset, Var(""), Var("0xprivatekey")},
     MIDNIGHT_API_KEY : {Unset, Var(""), Var("apikey")},
     MIDNIGHT_NETWORK : {Unset, Var("testnet"), Var("mainnet")}]

InitConfig ==
    /\ ServiceIdle /\ PredicateIdle /\ StatisticsIdle /\ RouteIdle
    /\ SessionIdle /\ SdkIdle /\ ProverIdle /\ AppIdle
    /\ cEnv \in ProcessEnvs
    /\ cOut = Null

ApplyLoadConfig ==
    /\ cOut = Null
    /\ cOut' = loadConfig(cEnv)
    /\ UNCHANGED cEnv
    /\ UNCHANGED <<serviceVars, predicateVars, statisticsVars, routeVars, appVars,
                   sessionVars, sdkVars, proverVars>>

NextConfig == ApplyLoadConfig

SpecConfig == InitConfig /\ [][NextConfig]_vars

\* the messages that start with 'Missing required environment variables'
MissingVariablesErrors ==
    {Throw(MissingVariables(names)) :
        names \in {<<"MIDNIGHT_PRIVATE_KEY">>, <<"MIDNIGHT_API_KEY">>,
                   <<"MIDNIGHT_PRIVATE_KEY", "MIDNIGHT_API_KEY">>}}

\* C18: loadConfig throws 'Missing required environment variables...' when
\* MIDNIGHT_PRIVATE_KEY is unset or empty, whatever NODE_ENV is, and when
\* NODE_ENV is 'mainnet' and MIDNIGHT_API_KEY is unset; with every required
\* variable holding a value it returns a configuration.
C18_MissingVariablesAreReported ==
    cOut # Null =>
        LET onMainnet == cEnv.NODE_ENV = Var("mainnet")
        IN  /\ Falsy(cEnv.MIDNIGHT_PRIVATE_KEY) => cOut \in MissingVariablesErrors
            /\ (onMainnet /\ ~cEnv.MIDNIGHT_API_KEY.set) => cOut \in MissingVariablesErrors
            /\ (/\ ~Falsy(cEnv.MIDNIGHT_PRIVATE_KEY)
                /\ onMainnet => ~Falsy(cEnv.MIDNIGHT_API_KEY)) =>
                   /\ cOut.kind = "return"
                   /\ cOut.value.wallet.privateKey = cEnv.MIDNIGHT_PRIVATE_KEY.value

\* on mainnet with the private key set and the API key unset, loadConfig
\* threw naming the API key alone
C18_Witness ==
    /\ cEnv.NODE_ENV = Var("mainnet")
    /\ cEnv.MIDNIGHT_PRIVATE_KEY = Var("0xprivatekey")
    /\ cEnv.MIDNIGHT_API_KEY = Unset
    /\ cOut = Throw(MissingVariables(<<"MIDNIGHT_API_KEY">>))

\* C19: the configuration loadConfig returns has environment.network equal to
\* MIDNIGHT_NETWORK where that is 'testnet' or 'mainnet', whatever NODE_ENV is.
C19_NetworkFollowsMidnightNetwork ==
    (cOut # Null /\ cOut.kind = "return" /\ cEnv.MIDNIGHT_NETWORK.set) =>
        cOut.value.environment.network = cEnv.MIDNIGHT_NETWORK.value

-----------------------------------------------------------------------------
(* Claims about the contract's check and its agreement with the services,  *)
(* under SpecPredicate                                                     *)

pFromContractCheck == pOut.impl = "isComplianceValid"

\* C21: isComplianceValid(trainingADate, trainingBScore, currentTime, minScore)
\* is true exactly when trainingADate >= currentTime - 31,536,000 and
\* trainingBScore >= minScore.
C21_ValidIffRecentAndScored ==
    pFromContractCheck =>
        (pOut.result = (/\ pRecord.trainingA_date + 31536000 >= pNow.sec
                        /\ pScorePasses))

\* C21 witness: a training exactly 365 days old with the minimum score passes.
C21_Witness ==
    /\ pFromContractCheck
    /\ pRecord.trainingA_date = pNow.sec - 31536000
    /\ pRecord.trainingB_score = pPolicy.requirements.trainingB_minScore
    /\ pOut.result = TRUE

\* the verdict of an application, whichever implementation gave it
Verdict(out) == IF out.impl = "isComplianceValid" THEN out.result ELSE out.result.compliant

\* a policy that asks for 365 days, a minimum score and no approval, at a
\* clock reading of whole seconds (the contract's currentTime is in seconds)
pContractPolicyAtWholeSecond ==
    /\ pPolicy.requirements.trainingA_maxAge = 365
    /\ ~pPolicy.requirements.managerApproval
    /\ pNow.ms = 0

\* the three copies applied to the inputs of the state
pContractVerdict ==
    isComplianceValid(pRecord.trainingA_date, pRecord.trainingB_score, pNow.sec,
                      pPolicy.requirements.trainingB_minScore)
pDataServiceVerdict == DataService_checkComplianceBody(pRecord, pPolicy, pNow).compliant
pMockVerdict == MockDataGenerator_checkComplianceBody(pRecord, pPolicy, pNow).compliant

\* C28: on the same integer inputs, with trainingA_maxAge = 365 and no
\* approval requirement, isComplianceValid, DataService.checkCompliance and
\* MockDataGenerator.checkCompliance give the same verdict: whichever copy
\* was applied, its verdict is the verdict of each of the three.
C28_ThreeCopiesAgree ==
    (pContractPolicyAtWholeSecond /\ pOut.impl # "none") =>
        /\ Verdict(pOut) = pContractVerdict
        /\ Verdict(pOut) = pDataServiceVerdict
        /\ Verdict(pOut) = pMockVerdict

\* C28 witness: DataService.checkCompliance has passed a training exactly
\* 365 days old, the boundary at which the three comparisons could part.
C28_Witness ==
    /\ pContractPolicyAtWholeSecond
    /\ pOut.impl = "DataService"
    /\ pElapsedSec = 31536000
    /\ pScorePasses
    /\ pOut.result.compliant

-----------------------------------------------------------------------------
(* loadPrivateData on bounded employee records: what getEmployee resolved  *)
(* with, and what loadPrivateData makes of it.                             *)

LoadScores == {-1, 0, 1, 100, 101}
LoadDates == {-1, 0, 1, StartSec - Days(30)}

\* records with every field present
CompleteRecords ==
    [employeeId : {"EMP001", ""}, department : {"IT Security", ""},
     trainingA_date : LoadDates, trainingB_score : LoadScores]

\* records that lack one field
PartialRecords ==
    {[employeeId |-> "EMP001", department |-> "IT Security", trainingA_date |-> 1],
     [employeeId |-> "EMP001", department |-> "IT Security", trainingB_score |-> 100],
     [employeeId |-> "EMP001", trainingA_date |-> 1, trainingB_score |-> 100],
     [department |-> "IT Security", trainingA_date |-> 1, trainingB_score |-> 100]}

LoadInputs ==
    {Return(r) : r \in CompleteRecords \cup PartialRecords}
        \cup {Return(Null), Throw(NotInitialized)}

InitLoad ==
    /\ ServiceIdle /\ PredicateIdle /\ StatisticsIdle /\ RouteIdle
    /\ SessionIdle /\ SdkIdle /\ ProverIdle /\ ConfigIdle
    /\ ConnectionIdle /\ DashboardIdle
    /\ lGot \in LoadInputs
    /\ lOut = Null

ApplyLoadPrivateData ==
    /\ lOut = Null
    /\ lOut' = loadPrivateData(lGot)
    /\ UNCHANGED lGot
    /\ UNCHANGED <<coreVars, connectionVars, dashboardVars>>

NextLoad == ApplyLoadPrivateData

SpecLoad == InitLoad /\ [][NextLoad]_vars

\* getEmployee resolved with a record, and loadPrivateData has dealt with it
lLoadedRecord == lOut # Null /\ lGot.kind = "return" /\ lGot.value # Null

lComplete == DOMAIN lGot.value = {"employeeId", "department", "trainingA_date", "trainingB_score"}

\* the data-model invariant: non-empty ids, a score in 0..100, a positive date
lSatisfiesInvariant ==
    /\ lComplete
    /\ lGot.value.employeeId # "" /\ lGot.value.department # ""
    /\ lGot.value.trainingB_score \in 0..100
    /\ lGot.value.trainingA_date > 0

\* a score outside 0..100, a negative date or a missing field
lBreaksInvariant ==
    \/ ~lComplete
    \/ lGot.value.trainingB_score \notin 0..100
    \/ lGot.value.trainingA_date < 0

\* C22: loadPrivateData succeeds for every stored record that satisfies the
\* data-model invariant (score anywhere in 0..100 inclusive) and fails for
\* every record with a score outside 0..100, a negative date or a missing
\* field.
C22_LoadSucceedsIffRecordValid ==
    lLoadedRecord =>
        /\ lSatisfiesInvariant => lOut.kind = "return"
        /\ lBreaksInvariant => lOut.kind = "throw"

-----------------------------------------------------------------------------
(* The initialization gate of DataService: every data operation called on  *)
(* a DataService before, after and without a successful initialize().      *)

\* the settled call of an operation that does not touch the backing store
DS_getEmployee(employeeId) ==
    /\ subject = "DataService"
    /\ sessionCalls < MaxSessionCalls
    /\ lastSessionCall' =
          SessionCall("DataService", "getEmployee", <<employeeId>>, NotReached,
                      DataService_getEmployee(isInitialized, employeeId, now))
    /\ sessionCalls' = sessionCalls + 1
    /\ UNCHANGED <<serviceVars, heldSessions>>
    /\ UNCHANGED <<predicateVars, statisticsVars, routeVars, appVars, sdkVars, proverVars, configVars>>

DS_getAllEmployees ==
    /\ subject = "DataService"
    /\ sessionCalls < MaxSessionCalls
    /\ lastSessionCall' =
          SessionCall("DataService", "getAllEmployees", <<>>, NotReached,
                      DataService_getAllEmployees(isInitialized, now))
    /\ sessionCalls' = sessionCalls + 1
    /\ UNCHANGED <<serviceVars, heldSessions>>
    /\ UNCHANGED <<predicateVars, statisticsVars, routeVars, appVars, sdkVars, proverVars, configVars>>

DS_getPolicy(policyId) ==
    /\ subject = "DataService"
    /\ sessionCalls < MaxSessionCalls
    /\ lastSessionCall' =
          SessionCall("DataService", "getPolicy", <<policyId>>, NotReached,
                      DataService_getPolicy(isInitialized, policyId, now))
    /\ sessionCalls' = sessionCalls + 1
    /\ UNCHANGED <<serviceVars, heldSessions>>
    /\ UNCHANGED <<predicateVars, statisticsVars, routeVars, appVars, sdkVars, proverVars, configVars>>

\* a session object the caller built itself, never handed out by the service
CallerMadeSession ==
    [id |-> UnknownSessionId, policyId |-> "POLICY_001", auditorId |-> "AUDITOR_1",
     employees |-> <<"EMP001">>, status |-> "pending",
     created |-> [sec |-> StartSec, ms |-> 0]]

\* updateAuditSession with a session object the caller built
DS_updateCallerMadeSession(reachable) ==
    /\ subject = "DataService"
    /\ sessionCalls < MaxSessionCalls
    /\ LET c == DataService_updateAuditSession(isInitialized, privateStateManager,
                                               CallerMadeSession, now, reachable)
       IN  /\ privateStateManager' = c.psm
           /\ lastSessionCall' =
                 SessionCall("DataService", "updateAuditSession", <<CallerMadeSession>>,
                             IF isInitialized
                             THEN PrivateStateManager_storeEncrypted(
                                      privateStateManager, "audit:" \o CallerMadeSession.id,
                                      CallerMadeSession, now, reachable).outcome
                             ELSE NotReached,
                             c.outcome)
    /\ sessionCalls' = sessionCalls + 1
    /\ UNCHANGED <<now, ticks, subject, isInitialized, initializeOutcome, employees,
                   policies, encryptedStorage, accessLog, initPc, calls, lastCall,
                   heldSessions>>
    /\ UNCHANGED <<predicateVars, statisticsVars, routeVars, appVars, sdkVars, proverVars, configVars>>

InitGate == InitClock /\ InitSessionService

NextGate ==
    \/ DS_initialize
    \/ \E e \in EmployeeIds : DS_getEmployee(e)
    \/ DS_getAllEmployees
    \/ \E p \in PolicyIds : DS_getPolicy(p)
    \/ \E p \in PolicyIds, a \in AuditorIds, e \in EmployeeIdLists,
          r \in RandomSuffixes, reachable \in BOOLEAN :
          DS_createAuditSession(p, a, e, r, reachable)
    \/ \E reachable \in BOOLEAN : DS_updateCallerMadeSession(reachable)
    \/ \E known \in BOOLEAN, reachable \in BOOLEAN : DS_getAuditSession(known, reachable)

SpecGate == InitGate /\ [][NextGate]_vars

GatedOperations ==
    {"getEmployee", "getAllEmployees", "getPolicy", "createAuditSession",
     "updateAuditSession", "getAuditSession"}

\* no initialize() call has completed successfully
neverInitialized == initializeOutcome # Return(Undefined)

\* C23: while no initialize() has completed successfully, each of the six
\* data operations rejects with 'Data service not initialized' without
\* reaching the backing store; and a failed initialize() rejects with the
\* error of loadInitialData and leaves isInitialized false.
C23_OperationsGatedOnInitialize ==
    /\ (neverInitialized /\ lastSessionCall # NoCall) =>
          /\ lastSessionCall.op \in GatedOperations
          /\ lastSessionCall.outcome = Throw(NotInitialized)
          /\ lastSessionCall.store = NotReached
    /\ (initializeOutcome # Undefined /\ initializeOutcome.kind = "throw") =>
          /\ ~isInitialized
          /\ initializeOutcome = Throw(StorageNotImplemented)

\* C23 witness: initialize() failed, and a getPolicy call made afterwards was
\* rejected at the gate.
C23_Witness ==
    /\ initializeOutcome = Throw(StorageNotImplemented)
    /\ lastSessionCall # NoCall
    /\ lastSessionCall.op = "getPolicy"
    /\ lastSessionCall.outcome = Throw(NotInitialized)

-----------------------------------------------------------------------------
(* The connection flag of the SDK classes: connect() and disconnect() as   *)
(* they suspend and resume, and the operations gated on isConnected.       *)

MaxTransitions == 2

NetworkStatus == [connected |-> TRUE, networkId |-> "testnet", blockNumber |-> 0,
                  gasPrice |-> "0x0"]

\* getNetworkStatus without its isConnected test
MidnightProtocolSDK_getNetworkStatus_Ungated(isConnected) == Return(NetworkStatus)

OfficialMidnightSDK_getNetworkStatus(isConnected) ==
    IF ~isConnected THEN Throw(NotConnected) ELSE Return(NetworkStatus)

MidnightProtocolSDK_getNetworkStatus(isConnected) ==
    IF ~isConnected THEN Throw(NotConnected) ELSE Return(NetworkStatus)

MidnightSDKAdapter_getNetworkStatus(isOfficialSDK, isConnected) ==
    IF isOfficialSDK THEN OfficialMidnightSDK_getNetworkStatus(isConnected)
    ELSE MidnightProtocolSDK_getNetworkStatus(isConnected)

Sdk_getNetworkStatus(class) ==
    /\ sdkCalls < MaxSdkCalls
    /\ lastSdkCall' =
          SdkCall(class, "getNetworkStatus", sdk[class],
                  MidnightSDKAdapter_getNetworkStatus(class = "OfficialMidnightSDK",
                                                      sdk[class]))
    /\ sdkCalls' = sdkCalls + 1
    /\ UNCHANGED <<serviceVars, predicateVars, statisticsVars, routeVars, appVars,
                   sessionVars, proverVars, configVars, sdk>>

\* a connect() or disconnect() call: suspended, or settled
Transition(op, settled) == [op |-> op, settled |-> settled]

TransitionsMade ==
    Len(requested["OfficialMidnightSDK"]) + Len(requested["MidnightProtocolSDK"])

\* the place of the last suspended disconnect() in a queue of suspended calls
\* (numbers into calls), 0 if there is none
RECURSIVE LastDisconnectAt(_, _)
LastDisconnectAt(queue, made) ==
    IF queue = <<>> THEN 0
    ELSE IF made[queue[Len(queue)]].op = "disconnect" THEN Len(queue)
    ELSE LastDisconnectAt(SubSeq(queue, 1, Len(queue) - 1), made)

InsertAt(queue, place, item) ==
    SubSeq(queue, 1, place - 1) \o <<item>> \o SubSeq(queue, place, Len(queue))

\* connect() is called and suspends: OfficialMidnightSDK at its 1000 ms
\* timer, which fires after every timer already set; MidnightProtocolSDK at
\* the import of the @midnight-ntwrk packages
Sdk_connect_call(class) ==
    /\ TransitionsMade < MaxTransitions
    /\ requested' = [requested EXCEPT ![class] = Append(@, Transition("connect", "suspended"))]
    /\ timers' = [timers EXCEPT ![class] = Append(@, Len(requested[class]) + 1)]
    /\ UNCHANGED <<coreVars, loadVars, dashboardVars>>

\* disconnect() is called.  OfficialMidnightSDK suspends at its 500 ms timer,
\* which fires after the disconnect timers already set and before or after a
\* connect timer, as that one has more or less than 500 ms left;
\* MidnightProtocolSDK has no await and clears the flag at once.
Sdk_disconnect_call(class, place) ==
    /\ TransitionsMade < MaxTransitions
    /\ IF class = "OfficialMidnightSDK"
       THEN /\ place > LastDisconnectAt(timers[class], requested[class])
            /\ place <= Len(timers[class]) + 1
            /\ requested' = [requested EXCEPT
                                ![class] = Append(@, Transition("disconnect", "suspended"))]
            /\ timers' = [timers EXCEPT
                             ![class] = InsertAt(@, place, Len(requested[class]) + 1)]
            /\ UNCHANGED sdkVars
       ELSE /\ place = 1
            /\ requested' = [requested EXCEPT
                                ![class] = Append(@, Transition("disconnect", "return"))]
            /\ sdk' = [sdk EXCEPT ![class] = FALSE]
            /\ lastSdkCall' = SdkCall(class, "disconnect", sdk[class], Return(Undefined))
            /\ UNCHANGED <<timers, sdkCalls>>
    /\ UNCHANGED <<serviceVars, predicateVars, statisticsVars, routeVars, sessionVars,
                   proverVars, configVars, loadVars, dashboardVars>>

\* the suspended call that is due first resumes and runs to its end
Sdk_transition_resume(class) ==
    /\ timers[class] # <<>>
    /\ LET n == Head(timers[class])
           op == requested[class][n].op
       IN  \E outcome \in IF op = "connect" THEN ConnectOutcomes(class)
                           ELSE {Return(Undefined)} :
              /\ sdk' = [sdk EXCEPT ![class] = IF outcome.kind = "throw" THEN @
                                               ELSE op = "connect"]
              /\ requested' = [requested EXCEPT ![class][n].settled = outcome.kind]
              /\ lastSdkCall' = SdkCall(class, op, sdk[class], outcome)
    /\ timers' = [timers EXCEPT ![class] = Tail(@)]
    /\ UNCHANGED sdkCalls
    /\ UNCHANGED <<serviceVars, predicateVars, statisticsVars, routeVars, sessionVars,
                   proverVars, configVars, loadVars, dashboardVars>>

InitConnection == InitSdk

NextConnection ==
    \/ \E class \in SdkClasses : Sdk_connect_call(class)
    \/ \E class \in SdkClasses, place \in 1..(MaxTransitions + 1) :
          Sdk_disconnect_call(class, place)
    \/ \E class \in SdkClasses : Sdk_transition_resume(class)
    \/ \E class \in SdkClasses : Sdk_generateProof(class)
    \/ \E class \in SdkClasses : Sdk_submitTransaction(class)
    \/ \E class \in SdkClasses : Sdk_verifyProof(class)
    \/ \E class \in SdkClasses : Sdk_getNetworkStatus(class)

SpecConnection == InitConnection /\ [][NextConnection]_vars

GatedSdkOperations == {"generateProof", "submitTransaction", "verifyProof", "getNetworkStatus"}

\* C24: an SDK operation called while isConnected is false rejects with
\* 'Not connected to Midnight Protocol network', not with the error of the
\* implementation behind it; and a connect() whose initialization throws
\* leaves isConnected false.
C24_OperationsGatedOnConnection ==
    /\ (lastSdkCall # NoCall /\ lastSdkCall.op \in GatedSdkOperations
            /\ ~lastSdkCall.connected)
          => lastSdkCall.outcome = Throw(NotConnected)
    /\ (lastSdkCall # NoCall /\ lastSdkCall.op = "connect"
            /\ lastSdkCall.outcome.kind = "throw" /\ ~lastSdkCall.connected)
          => ~sdk[lastSdkCall.svc]

\* C24 witness: getNetworkStatus was rejected on an instance that had been
\* connected and disconnected again.
C24_Witness ==
    /\ lastSdkCall # NoCall
    /\ lastSdkCall.op = "getNetworkStatus"
    /\ lastSdkCall.outcome = Throw(NotConnected)
    /\ \E class \in SdkClasses :
          /\ lastSdkCall.svc = class
          /\ Len(requested[class]) = 2
          /\ requested[class][1] = Transition("connect", "return")
          /\ requested[class][2] = Transition("disconnect", "return")

\* every call made on the instance has completed, none with an error
allCompleted(class) ==
    /\ requested[class] # <<>>
    /\ \A n \in 1..Len(requested[class]) : requested[class][n].settled = "return"

\* C25: once all connect() and disconnect() calls on an instance have
\* completed, isConnected is true if the last call invoked was connect() and
\* false if it was disconnect().
C25_FlagFollowsLastRequest ==
    \A class \in SdkClasses :
        allCompleted(class) =>
            (sdk[class] = (requested[class][Len(requested[class])].op = "connect"))

-----------------------------------------------------------------------------
(* runComplianceAudit step by step, against a DataService whose            *)
(* getEmployee settles in each of the ways it can.                         *)

AuditLoadInputs ==
    {Return([employeeId |-> "EMP001", department |-> "IT Security",
             trainingA_date |-> StartSec - Days(30), trainingB_score |-> 92]),
     Return([employeeId |-> "EMP001", department |-> "IT Security",
             trainingA_date |-> StartSec - Days(30), trainingB_score |-> 101]),
     Return(Null), Throw(NotInitialized)}

\* runComplianceAudit is called and runs up to its first await;
\* dataService.getEmployee settles with got
Prover_runComplianceAudit_found(auditParams, got) ==
    /\ Len(audits) < MaxAudits
    /\ audits' = Append(audits,
                        [employeeId |-> "EMP001", auditParams |-> auditParams,
                         startTime |-> now, afterInitialize |-> proverInitialize,
                         pc |-> "loadPrivateData", steps |-> <<"loadPrivateData">>,
                         awaited |-> got,
                         publicData |-> Null, proofHash |-> Null, outcome |-> Null])
    /\ UNCHANGED <<serviceVars, predicateVars, statisticsVars, routeVars, appVars,
                   sessionVars, sdkVars, configVars, proverInitialize>>

InitAudit == InitProver

NextAudit ==
    \/ Prover_initialize
    \/ Prover_initialize_resume
    \/ \E a \in AuditParams, got \in AuditLoadInputs : Prover_runComplianceAudit_found(a, got)
    \/ \E i \in 1..MaxAudits : Prover_runComplianceAudit_resume(i)

SpecAudit == InitAudit /\ [][NextAudit]_vars

AuditSteps == <<"loadPrivateData", "validateInputData", "generateProof", "submitTransaction">>

InputErrors ==
    {"Employee ID is required", "Valid Training A completion date is required",
     "Training B score must be between 0 and 100", "Policy hash is required",
     "Audit ID is required"}

\* the steps were started in order, none skipped
stepsInOrder(audit) ==
    /\ Len(audit.steps) <= Len(AuditSteps)
    /\ audit.steps = SubSeq(AuditSteps, 1, Len(audit.steps))

\* what a settled invocation resolved with agrees with the steps it took
resultMatchesSteps(audit) ==
    LET result == audit.outcome.value
    IN  IF result.success
        THEN /\ audit.steps = AuditSteps
             /\ "error" \notin DOMAIN result
        ELSE /\ result.proofHash = ""
             /\ "transactionHash" \notin DOMAIN result
             /\ "error" \in DOMAIN result /\ result.error # ""
             /\ result.error = LoadFailed => audit.steps = <<"loadPrivateData">>
             /\ result.error \in {"Proof generation failed: " \o m : m \in InputErrors}
                    => audit.steps = <<"loadPrivateData", "validateInputData">>

-----------------------------------------------------------------------------
(* Claims about the MockDataGenerator's seeding, under Spec *)

\* the last call was MockDataGenerator.checkCompliance for an employee and a
\* policy that initializeData seeds
lastCheckedSeeded ==
    /\ lastCall.svc = "MockDataGenerator"
    /\ lastCall.op = "checkCompliance"
    /\ \E k \in 1..Len(employees) : employees[k].employeeId = lastCall.args[1]
    /\ \E k \in 1..Len(policies) : policies[k].id = lastCall.args[2]

\* C27: from the moment the MockDataGenerator constructor returns,
\* checkCompliance never reports 'Employee or policy not found' for a seeded
\* employee id and policy id, however the un-awaited initializeData
\* interleaves with the caller.
C27_SeededResolvableFromConstruction ==
    lastCheckedSeeded => lastCall.outcome.value # NotFoundResult

-----------------------------------------------------------------------------
(* Claims about the ids of the audit-results log, under SpecRoute *)

\* C29: no two stored entries share an id, and the k-th appended entry has
\* the id 'AUDIT' followed by k zero-padded to three digits, whatever the
\* request bodies were.
C29_EntryIdsDistinctAndNumbered ==
    /\ \A i, j \in 1..Len(auditResults) :
          auditResults[i].id = auditResults[j].id => i = j
    /\ \A k \in 1..Len(auditResults) : auditResults[k].id = "AUDIT" \o padStart3(k)

-----------------------------------------------------------------------------
(* ComplianceDashboard.tsx: the component's state and runComplianceAudit *)

MaxRuns == 2

\* new Date(ms).toISOString().split('T')[0]: the UTC calendar day of a clock
\* reading, kept as its day number
toISODate(t) == t.sec \div SecondsPerDay

\* new Date('YYYY-MM-DD'): midnight UTC of that day
parseISODate(day) == [sec |-> day * SecondsPerDay, ms |-> 0]

\* a > b on two Date objects
DateAfter(a, b) == a.sec > b.sec \/ (a.sec = b.sec /\ a.ms > b.ms)

\* the list both fallback branches of loadEmployeeData set
FallbackEmployees(t) ==
    << [id |-> "EMP001", name |-> "Alice Johnson", department |-> "IT Security",
        status |-> "compliant", lastAudit |-> toISODate(TimeMinusSec(t, Days(30))),
        trainingScore |-> 92],
       [id |-> "EMP002", name |-> "Bob Smith", department |-> "Human Resources",
        status |-> "compliant", lastAudit |-> toISODate(TimeMinusSec(t, Days(60))),
        trainingScore |-> 85],
       [id |-> "EMP003", name |-> "Carol Davis", department |-> "Finance",
        status |-> "non-compliant", lastAudit |-> toISODate(TimeMinusSec(t, Days(400))),
        trainingScore |-> 78] >>

\* a list /api/employees may answer with: an employee without a score, one
\* with score 0, one shown as pending, one at the score threshold
FetchedEmployees(t) ==
    << [id |-> "EMP010", name |-> "Dan", department |-> "Legal",
        status |-> "compliant", lastAudit |-> toISODate(TimeMinusSec(t, Days(10)))],
       [id |-> "EMP011", name |-> "Eve", department |-> "Legal",
        status |-> "compliant", lastAudit |-> toISODate(TimeMinusSec(t, Days(10))),
        trainingScore |-> 0],
       [id |-> "EMP012", name |-> "Fay", department |-> "Legal",
        status |-> "pending", lastAudit |-> toISODate(TimeMinusSec(t, Days(10))),
        trainingScore |-> 90],
       [id |-> "EMP013", name |-> "Gus", department |-> "Legal",
        status |-> "non-compliant", lastAudit |-> toISODate(TimeMinusSec(t, Days(364))),
        trainingScore |-> 80] >>

DashboardEmployeeIds == {"EMP001", "EMP002", "EMP003", "EMP010", "EMP011", "EMP012", "EMP013"}

\* setTimeout(resolve, 1500 + Math.random() * 1000): the shortest and the
\* longest wait
TimerDelays == {[sec |-> 1, ms |-> 500], [sec |-> 2, ms |-> 499]}

\* 800 + Math.floor(Math.random() * 500)
VerificationTimes == {800, 1299}

\* employee?.trainingScore && employee.trainingScore >= 80 &&
\*   new Date(employee.lastAudit) > new Date(Date.now() - 365 days), made a
\* boolean as `isCompliant || false` and `isCompliant ? ... : ...` read it
isCompliant(closure, employeeId, t) ==
    \E i \in 1..Len(closure) :
        /\ closure[i].id = employeeId
        /\ \A j \in 1..(i - 1) : closure[j].id # employeeId
        /\ "trainingScore" \in DOMAIN closure[i]
        /\ closure[i].trainingScore # 0
        /\ closure[i].trainingScore >= 80
        /\ DateAfter(parseISODate(closure[i].lastAudit), TimeMinusSec(t, Days(365)))

\* the AuditResult the handler builds
DashboardResult(employeeId, compliant, verificationTime, t) ==
    [employeeId |-> employeeId,
     success |-> compliant,
     transactionHash |-> IF compliant THEN Var("0x8f3a") ELSE Unset,
     proofHash |-> "8f3a",
     verificationTime |-> verificationTime,
     error |-> IF compliant THEN Unset ELSE Var("Training requirements not met"),
     timestamp |-> t]

\* setEmployees(prev => prev.map(emp => emp.id === employeeId ? {...emp, status: 'pending'} : emp))
MarkPending(prev, employeeId) ==
    [i \in 1..Len(prev) |->
        IF prev[i].id = employeeId THEN [prev[i] EXCEPT !.status = "pending"] ELSE prev[i]]

\* setEmployees(prev => prev.map(emp => emp.id === employeeId
\*    ? {...emp, status: result.success ? 'compliant' : 'non-compliant', lastAudit: today} : emp))
MarkAudited(prev, employeeId, result, t) ==
    [i \in 1..Len(prev) |->
        IF prev[i].id = employeeId
        THEN [prev[i] EXCEPT !.status = IF result.success THEN "compliant" ELSE "non-compliant",
                             !.lastAudit = toISODate(t)]
        ELSE prev[i]]

\* the component after loadEmployeeData has settled and loading is false
InitDashboard ==
    /\ ServiceIdle /\ PredicateIdle /\ StatisticsIdle /\ RouteIdle
    /\ SessionIdle /\ SdkIdle /\ ProverIdle /\ ConfigIdle
    /\ LoadIdle /\ ConnectionIdle
    /\ dashEmployees \in {FallbackEmployees(now), FetchedEmployees(now)}
    /\ dashAuditResults = <<>>
    /\ isRunningAudit = FALSE
    /\ selectedEmployee = Null
    /\ dashRun = NotCalled

\* the runs started so far
runsStarted == IF dashRun = NotCalled THEN 0 ELSE dashRun.run

\* the row's button is enabled: disabled={isRunningAudit || employee.status === 'pending'}
ButtonEnabled(employeeId) ==
    /\ ~isRunningAudit
    /\ \E i \in 1..Len(dashEmployees) :
          dashEmployees[i].id = employeeId /\ dashEmployees[i].status # "pending"

\* a click on an enabled button: runComplianceAudit(employeeId) up to its await
Dashboard_runComplianceAudit_call(employeeId) ==
    /\ runsStarted < MaxRuns
    /\ ButtonEnabled(employeeId)
    /\ isRunningAudit' = TRUE
    /\ selectedEmployee' = Var(employeeId)
    /\ dashEmployees' = MarkPending(dashEmployees, employeeId)
    /\ dashRun' = [pc |-> "waiting", run |-> runsStarted + 1, employeeId |-> employeeId,
                   closure |-> dashEmployees, resultsBefore |-> dashAuditResults]
    /\ UNCHANGED <<dashAuditResults, coreVars, loadVars, connectionVars>>

\* the catch path taken although nothing threw: no result, status left as it is
Dashboard_runComplianceAudit_resume_StatusLeft(delay, verificationTime) ==
    /\ dashRun.pc = "waiting"
    /\ now' = TimePlus(now, delay)
    /\ isRunningAudit' = FALSE
    /\ selectedEmployee' = Null
    /\ dashRun' = [dashRun EXCEPT !.pc = "done"]
    /\ UNCHANGED <<dashEmployees, dashAuditResults>>
    /\ UNCHANGED <<ticks, privateStateManager, isInitialized, initializeOutcome,
                   employees, policies, encryptedStorage, accessLog, initPc, calls,
                   lastCall, subject>>
    /\ UNCHANGED <<predicateVars, statisticsVars, routeVars, sessionVars, sdkVars,
                   proverVars, configVars, loadVars, connectionVars>>

\* the timer fires: the rest of the try block, then the finally block
Dashboard_runComplianceAudit_resume(delay, verificationTime) ==
    /\ dashRun.pc = "waiting"
    /\ now' = TimePlus(now, delay)
    /\ LET t == TimePlus(now, delay)
           result == DashboardResult(dashRun.employeeId,
                                     isCompliant(dashRun.closure, dashRun.employeeId, t),
                                     verificationTime, t)
       IN  /\ dashAuditResults' = <<result>> \o dashAuditResults
           /\ dashEmployees' = MarkAudited(dashEmployees, dashRun.employeeId, result, t)
    /\ isRunningAudit' = FALSE
    /\ selectedEmployee' = Null
    /\ dashRun' = [dashRun EXCEPT !.pc = "done"]
    /\ UNCHANGED <<ticks, privateStateManager, isInitialized, initializeOutcome,
                   employees, policies, encryptedStorage, accessLog, initPc, calls,
                   lastCall, subject>>
    /\ UNCHANGED <<predicateVars, statisticsVars, routeVars, sessionVars, sdkVars,
                   proverVars, configVars, loadVars, connectionVars>>

\* the page stays open for most of a year while no audit is running
Dashboard_Tick ==
    /\ dashRun.pc # "waiting"
    /\ ticks < MaxTicks
    /\ now' = TimePlus(now, [sec |-> Days(335), ms |-> 0])
    /\ ticks' = ticks + 1
    /\ UNCHANGED <<privateStateManager, isInitialized, initializeOutcome,
                   employees, policies, encryptedStorage, accessLog, initPc, calls,
                   lastCall, subject>>
    /\ UNCHANGED <<predicateVars, statisticsVars, routeVars, clientVars>>

Dashboard_timerFires ==
    \E delay \in TimerDelays, verificationTime \in VerificationTimes :
        Dashboard_runComplianceAudit_resume(delay, verificationTime)

NextDashboard ==
    \/ \E employeeId \in DashboardEmployeeIds : Dashboard_runComplianceAudit_call(employeeId)
    \/ Dashboard_timerFires
    \/ Dashboard_Tick

\* a timer that was set fires
SpecDashboard ==
    /\ InitDashboard
    /\ [][NextDashboard]_vars
    /\ WF_vars(Dashboard_timerFires)

-----------------------------------------------------------------------------
(* Claims about the dashboard's audit runs, under SpecDashboard *)

\* every employee other than the audited one shows the status it had when
\* the button was clicked
othersUntouched ==
    /\ Len(dashEmployees) = Len(dashRun.closure)
    /\ \A i \in 1..Len(dashEmployees) :
          /\ dashEmployees[i].id = dashRun.closure[i].id
          /\ dashEmployees[i].id # dashRun.employeeId =>
                dashEmployees[i].status = dashRun.closure[i].status

auditedStatus(status) ==
    \A i \in 1..Len(dashEmployees) :
        dashEmployees[i].id = dashRun.employeeId => dashEmployees[i].status = status

dashStartedRight ==
    /\ isRunningAudit
    /\ selectedEmployee = Var(dashRun.employeeId)
    /\ auditedStatus("pending")
    /\ dashAuditResults = dashRun.resultsBefore
    /\ othersUntouched

dashFinishedCleanly ==
    /\ ~isRunningAudit
    /\ selectedEmployee = Null
    /\ Len(dashAuditResults) = Len(dashRun.resultsBefore) + 1
    /\ Tail(dashAuditResults) = dashRun.resultsBefore
    /\ dashAuditResults[1].employeeId = dashRun.employeeId
    /\ auditedStatus(IF dashAuditResults[1].success THEN "compliant" ELSE "non-compliant")
    /\ othersUntouched

\* C30: a started audit has set the employee's status to 'pending' and
\* isRunningAudit to true, it eventually completes, and when it has completed
\* isRunningAudit is false, selectedEmployee is null, exactly one result for
\* that employee was added in front of auditResults, the employee's status is
\* 'compliant' if that result's success is true and 'non-compliant' otherwise,
\* and every other employee's status is what it was.
C30_StartedAuditFinishesCleanly ==
    /\ [](dashRun.pc = "waiting" => dashStartedRight)
    /\ [](dashRun.pc = "done" => dashFinishedCleanly)
    /\ (dashRun.pc = "waiting") ~> (dashRun.pc = "done")

\* two audits have completed, the first failed and the second succeeded
C30_Witness ==
    /\ dashRun.pc = "done"
    /\ Len(dashAuditResults) = 2
    /\ dashAuditResults[1].success
    /\ ~dashAuditResults[2].success
    /\ dashAuditResults[1].employeeId # dashAuditResults[2].employeeId

====
